---- MODULE Spec2Model ----
(***************************************************************************)
(* Model of the registration task orchestrator (core/register_service.py)  *)
(* and of the mailbox polling of the verification step                     *)
(* (core/gptmail_client.py, core/moemail_client.py,                        *)
(* core/gemini_automation_patchright.py).                                  *)
(*                                                                         *)
(* The orchestrator runs on one asyncio event loop: a coroutine runs       *)
(* without interruption from one await to the next, so every action below  *)
(* is one such segment.  An attempt (_register_one) runs on an executor    *)
(* thread, concurrently with the event loop.                               *)
(***************************************************************************)
EXTENDS Integers, Sequences, FiniteSets, TLC

\* ------------------------------------------------------------------ bounds
MaxJobs == 2        \* jobs accepted by start_register in one behaviour
MaxCount == 3       \* largest requested attempt count
MaxAttempts == 4    \* attempts requested by all accepted jobs together
MaxDelay == 1       \* largest configured between-account delay (seconds)
MaxDefault == 2     \* largest configured register_default_count

\* ------------------------------------------------------------------ values
None == "None"
NoTask == 0         \* None where a job id is expected (ids start at 1)
PENDING == "pending"
RUNNING == "running"
SUCCESS == "success"
FAILED == "failed"
CANCELLED == "cancelled"
Terminal == {SUCCESS, FAILED, CANCELLED}

VARIABLES
    tasks,            \* self._tasks: job id -> job record (ids are 1, 2, ...)
    pending,          \* the worker's queue of job ids
    current_task_id,  \* the job the worker holds, or NoTask
    wpc,              \* position of the background worker coroutine
    idx,              \* loop index of _run_register_async
    executing,        \* attempts running on the executor: set of <<job, idx>>
    future,           \* outcome of the attempt the worker awaits
    accounts_config,  \* os.environ has ACCOUNTS_CONFIG set
    ret,              \* what the start_register call of this step returned or
                      \* raised (NoRet after any other step)
    mail,             \* one PollingVerification: provider, mailbox, the call of
                      \* poll_for_code and its position
    flow,             \* one attempt on the executor thread: _register_one and
                      \* the automation it drives, with the browser resources
    logs,             \* the jobs' logs, the clock their timestamps are read
                      \* from, and the _append_log call of the attempt's thread
    history           \* the task_history table of the store, and what the last
                      \* load_task_history returned

vars == <<tasks, pending, current_task_id, wpc, idx, executing, future,
          accounts_config, ret, mail, flow, logs, history>>

\* ------------------------------------------------------------------ job record
\* BaseTask as constructed by RegisterTask(id=..., count=..., domain=...)
NewTask(count) ==
    [status |-> PENDING, count |-> count, progress |-> 0, results |-> <<>>,
     success_count |-> 0, fail_count |-> 0, cancel_requested |-> FALSE,
     finished_at |-> None]

Active(t) == t.status \in {PENDING, RUNNING}

NoRet == [op |-> "none", out |-> "none", id |-> NoTask]

\* the logs are not followed
LogsOff == [pc |-> "off"]

\* the store is not followed
HistoryOff == [pc |-> "off"]

\* time.time() read into finished_at: only "set" or None is observed
Now == "set"

\* ------------------------------------------------------------------ base service
\* get_current_task(): the job that is queued or running, else the job the
\* worker still holds.
get_current_task ==
    IF \E id \in DOMAIN tasks : Active(tasks[id])
    THEN CHOOSE id \in DOMAIN tasks : Active(tasks[id])
    ELSE current_task_id

\* _enqueue_task(task): queue the id and start the worker when none is running
enqueue_task(id) ==
    /\ pending' = Append(pending, id)
    /\ wpc' = IF wpc = "idle" THEN "dequeue" ELSE wpc

\* ------------------------------------------------------------------ start_register
RECURSIVE TotalCount(_)
TotalCount(ts) == IF ts = <<>> THEN 0 ELSE Head(ts).count + TotalCount(Tail(ts))

\* register_count = count or default, without line 77
RegisterCount_NoClamp(count, default) ==
    IF ~count.given \/ count.value = 0 THEN default ELSE count.value

\* register_count = count or default; register_count = max(1, int(register_count))
RegisterCount(count, default) ==
    LET c == IF ~count.given \/ count.value = 0 THEN default ELSE count.value
    IN  IF c < 1 THEN 1 ELSE c

\* current and current.status in (PENDING, RUNNING)
Busy ==
    LET current == get_current_task
    IN  current # NoTask /\ tasks[current].status \in {PENDING, RUNNING}

\* count: Optional[int] = None
CountInputs == {[given |-> FALSE, value |-> 0]} \cup
               {[given |-> TRUE, value |-> v] : v \in -1..MaxCount}
DefaultCounts == 0..MaxDefault

\* start_register without the check of lines 68-70
start_register_NoBusyCheck(count, default) ==
    IF accounts_config
    THEN /\ ret' = [op |-> "submit", out |-> "Disabled", id |-> NoTask]
         /\ UNCHANGED <<tasks, pending, current_task_id, wpc, idx, executing,
                        future, accounts_config>>
    ELSE LET id == Len(tasks) + 1
         IN  /\ id <= MaxJobs
             /\ TotalCount(tasks) + RegisterCount(count, default) <= MaxAttempts
             /\ tasks' = Append(tasks, NewTask(RegisterCount(count, default)))
             /\ enqueue_task(id)
             /\ ret' = [op |-> "submit", out |-> "ok", id |-> id]
             /\ UNCHANGED <<current_task_id, idx, executing, future,
                            accounts_config>>

\* start_register without the check of lines 65-66
start_register_NoLock(count, default) ==
    IF Busy
    THEN /\ ret' = [op |-> "submit", out |-> "AlreadyRunning", id |-> NoTask]
         /\ UNCHANGED <<tasks, pending, current_task_id, wpc, idx, executing,
                        future, accounts_config>>
    ELSE LET id == Len(tasks) + 1
         IN  /\ id <= MaxJobs
             /\ TotalCount(tasks) + RegisterCount(count, default) <= MaxAttempts
             /\ tasks' = Append(tasks, NewTask(RegisterCount(count, default)))
             /\ enqueue_task(id)
             /\ ret' = [op |-> "submit", out |-> "ok", id |-> id]
             /\ UNCHANGED <<current_task_id, idx, executing, future,
                            accounts_config>>

start_register(count, default) ==
    IF accounts_config
    THEN /\ ret' = [op |-> "submit", out |-> "Disabled", id |-> NoTask]
         /\ UNCHANGED <<tasks, pending, current_task_id, wpc, idx, executing,
                        future, accounts_config>>
    ELSE IF Busy
    THEN /\ ret' = [op |-> "submit", out |-> "AlreadyRunning", id |-> NoTask]
         /\ UNCHANGED <<tasks, pending, current_task_id, wpc, idx, executing,
                        future, accounts_config>>
    ELSE LET id == Len(tasks) + 1
         IN  /\ id <= MaxJobs
             /\ TotalCount(tasks) + RegisterCount(count, default) <= MaxAttempts
             /\ tasks' = Append(tasks, NewTask(RegisterCount(count, default)))
             /\ enqueue_task(id)
             /\ ret' = [op |-> "submit", out |-> "ok", id |-> id]
             /\ UNCHANGED <<current_task_id, idx, executing, future,
                            accounts_config>>

Submit ==
    /\ \E count \in CountInputs, default \in DefaultCounts :
          start_register(count, default)
    /\ UNCHANGED <<mail, flow, logs, history>>

\* the process environment is set or cleared from outside the service
SetEnviron ==
    /\ accounts_config' = ~accounts_config
    /\ ret' = NoRet
    /\ UNCHANGED <<mail, flow, logs, history>>
    /\ UNCHANGED <<tasks, pending, current_task_id, wpc, idx, executing, future>>

\* ------------------------------------------------------------------ cancel_task
Remove(q, id) == SelectSeq(q, LAMBDA x : x # id)

\* cancel_task that only sets the flag, whatever the status
cancel_task_FlagOnly(id) ==
    IF id \notin DOMAIN tasks
    THEN /\ ret' = NoRet
         /\ UNCHANGED <<tasks, pending, current_task_id, wpc, idx, executing,
                        future, accounts_config>>
    ELSE /\ tasks' = [tasks EXCEPT ![id].cancel_requested = TRUE]
         /\ ret' = NoRet
         /\ UNCHANGED <<pending, current_task_id, wpc, idx, executing, future,
                        accounts_config>>

\* cancel_task that marks the job CANCELLED whatever its status
cancel_task_AnyStatus(id) ==
    IF id \notin DOMAIN tasks
    THEN /\ ret' = NoRet
         /\ UNCHANGED <<tasks, pending, current_task_id, wpc, idx, executing,
                        future, accounts_config>>
    ELSE /\ tasks' = [tasks EXCEPT ![id] =
                        [@ EXCEPT !.cancel_requested = TRUE,
                                  !.status = CANCELLED,
                                  !.finished_at = Now]]
         /\ pending' = Remove(pending, id)
         /\ ret' = NoRet
         /\ UNCHANGED <<current_task_id, wpc, idx, executing, future,
                        accounts_config>>

\* cancel(jobId, reason): sets the cancellation flag; a PENDING job goes
\* directly to CANCELLED and leaves the queue; a RUNNING job keeps its status
\* until the worker observes the flag.
cancel_task(id) ==
    IF id \notin DOMAIN tasks
    THEN /\ ret' = NoRet
         /\ UNCHANGED <<tasks, pending, current_task_id, wpc, idx, executing,
                        future, accounts_config>>
    ELSE /\ tasks' = [tasks EXCEPT ![id] =
                        IF @.status = PENDING
                        THEN [@ EXCEPT !.cancel_requested = TRUE,
                                       !.status = CANCELLED,
                                       !.finished_at = Now]
                        ELSE [@ EXCEPT !.cancel_requested = TRUE]]
         /\ pending' = IF tasks[id].status = PENDING THEN Remove(pending, id)
                       ELSE pending
         /\ ret' = NoRet
         /\ UNCHANGED <<current_task_id, wpc, idx, executing, future,
                        accounts_config>>

Cancel ==
    /\ \E id \in 1..MaxJobs : cancel_task(id)
    /\ UNCHANGED <<mail, flow, logs, history>>

\* ------------------------------------------------------------------ _run_register_async
\* the cancelled job with the interrupted attempt counted as a failure
CancelledTask_Counted(t) ==
    [t EXCEPT !.status = CANCELLED, !.finished_at = Now,
              !.progress = @ + 1, !.fail_count = @ + 1,
              !.results = Append(@, [success |-> FALSE, error |-> "cancelled"])]

\* lines 95-99 and 104-107: the job ends cancelled
CancelledTask(t) == [t EXCEPT !.status = CANCELLED, !.finished_at = Now]

\* the loop without the check of line 95
ShouldStop_Never(t) == FALSE

\* line 95: the cancellation check at the top of every iteration
ShouldStop(t) == t.cancel_requested

\* lines 110-120: one attempt's result is recorded
RecordResult(t, result) ==
    [t EXCEPT !.progress = @ + 1,
              !.results = Append(@, result),
              !.success_count = IF result.success THEN @ + 1 ELSE @,
              !.fail_count = IF result.success THEN @ ELSE @ + 1]

\* lines 134-137 deciding SUCCESS from success_count instead of fail_count
FinalStatus_AnySuccess(t) ==
    IF t.cancel_requested THEN CANCELLED
    ELSE IF t.success_count > 0 THEN SUCCESS ELSE FAILED

\* lines 134-137
FinalStatus(t) ==
    IF t.cancel_requested THEN CANCELLED
    ELSE IF t.fail_count = 0 THEN SUCCESS ELSE FAILED

\* lines 134-139 without the assignment of finished_at
FinishTask_NoTime(t) == [t EXCEPT !.status = FinalStatus(t)]

\* lines 134-139
FinishTask(t) == [t EXCEPT !.status = FinalStatus(t), !.finished_at = Now]

\* range(task.count + 1)
LoopContinues_OneMore(t, i) == i <= t.count

\* line 94: for idx in range(task.count)
LoopContinues(t, i) == i < t.count

\* LoopTop with line 103 not awaited: the attempt is handed to the executor and
\* the loop goes on to its next iteration at once
LoopTop_NotAwaited(id, t, i) ==
    IF ~LoopContinues(t, i)
    THEN /\ tasks' = [tasks EXCEPT ![id] = FinishTask(t)]
         /\ wpc' = "release"
         /\ UNCHANGED <<idx, executing, future>>
    ELSE IF ShouldStop(t)
    THEN /\ tasks' = [tasks EXCEPT ![id] = CancelledTask(t)]
         /\ wpc' = "release"
         /\ UNCHANGED <<idx, executing, future>>
    ELSE /\ tasks' = [tasks EXCEPT ![id] = t]
         /\ idx' = i
         /\ executing' = executing \cup {<<id, i>>}
         /\ future' = "none"
         /\ wpc' = "sleep"

\* The loop from the top of iteration i up to its next await: the job ends
\* (lines 95-99, or 134-139 after the last iteration), or attempt i is handed
\* to the executor (line 103).
LoopTop(id, t, i) ==
    IF ~LoopContinues(t, i)
    THEN /\ tasks' = [tasks EXCEPT ![id] = FinishTask(t)]
         /\ wpc' = "release"
         /\ UNCHANGED <<idx, executing, future>>
    ELSE IF ShouldStop(t)
    THEN /\ tasks' = [tasks EXCEPT ![id] = CancelledTask(t)]
         /\ wpc' = "release"
         /\ UNCHANGED <<idx, executing, future>>
    ELSE /\ tasks' = [tasks EXCEPT ![id] = t]
         /\ idx' = i
         /\ executing' = executing \cup {<<id, i>>}
         /\ future' = "pending"
         /\ wpc' = "await_attempt"

\* lines 91-94: the coroutine starts
RunStart ==
    /\ wpc = "run"
    /\ LoopTop(current_task_id, tasks[current_task_id], 0)
    /\ ret' = NoRet
    /\ UNCHANGED <<mail, flow, logs, history>>
    /\ UNCHANGED <<pending, current_task_id, accounts_config>>

\* _register_one on the executor thread ends: it returns a result ("ok", or a
\* failure with its error text), raises an exception ("exc"), or raises
\* TaskCancelledError (only once cancellation was requested)
Outcomes(t) == {"ok", "error", "exc"} \cup
               (IF t.cancel_requested THEN {"cancelled"} ELSE {})

AttemptEnds ==
    /\ future = "pending"
    /\ \E a \in executing :
         /\ \E o \in Outcomes(tasks[a[1]]) : future' = o
         /\ executing' = executing \ {a}
    /\ ret' = NoRet
    /\ UNCHANGED <<mail, flow, logs, history>>
    /\ UNCHANGED <<tasks, pending, current_task_id, wpc, idx, accounts_config>>

\* a failed result recorded without the error text of the attempt
ResultOf_NoReason(outcome) ==
    IF outcome = "ok" THEN [success |-> TRUE, error |-> None]
    ELSE [success |-> FALSE, error |-> "error"]

\* line 103 (the returned result, a failure keeping its error text) and line
\* 109 (an exception turned into a result with str(exc))
ResultOf(outcome) ==
    IF outcome = "ok" THEN [success |-> TRUE, error |-> None]
    ELSE IF outcome = "exc" THEN [success |-> FALSE, error |-> "error"]
    ELSE [success |-> FALSE, error |-> outcome]

\* the configured between_account_min_seconds and between_account_max_seconds
\* (lines 124-125): whole seconds, negative ones and min > max included
DelayInputs == -1..(MaxDelay + 1)

\* the delay applied after every attempt, the last one included
SleepSeconds_AfterLast(t, i, delay_min, delay_max) ==
    IF delay_max > 0
    THEN LET lo == IF delay_min > 0 THEN delay_min ELSE 0
             hi == IF delay_max > lo THEN delay_max ELSE lo
         IN  lo..hi
    ELSE {0}

\* lines 123-130: the delay before the next attempt, 0 when none is applied
SleepSeconds(t, i, delay_min, delay_max) ==
    IF i < t.count - 1 /\ delay_max > 0
    THEN LET lo == IF delay_min > 0 THEN delay_min ELSE 0
             hi == IF delay_max > lo THEN delay_max ELSE lo
         IN  lo..hi
    ELSE {0}

\* the worker resumes after the awaited attempt (lines 103-132)
AttemptResumes ==
    /\ wpc = "await_attempt"
    /\ future \notin {"none", "pending"}
    /\ LET id == current_task_id
           t == tasks[id]
       IN IF future = "cancelled"
          THEN /\ tasks' = [tasks EXCEPT ![id] = CancelledTask(t)]
               /\ wpc' = "release"
               /\ future' = "none"
               /\ UNCHANGED <<idx, executing>>
          ELSE LET t1 == RecordResult(t, ResultOf(future))
               IN \E delay_min \in DelayInputs, delay_max \in DelayInputs :
                    \E sleep_seconds \in SleepSeconds(t1, idx, delay_min, delay_max) :
                       IF sleep_seconds > 0
                       THEN /\ tasks' = [tasks EXCEPT ![id] = t1]
                            /\ wpc' = "sleep"
                            /\ future' = "none"
                            /\ UNCHANGED <<idx, executing>>
                       ELSE LoopTop(id, t1, idx + 1)
    /\ ret' = NoRet
    /\ UNCHANGED <<mail, flow, logs, history>>
    /\ UNCHANGED <<pending, current_task_id, accounts_config>>

\* line 132 returns: the next iteration starts
SleepEnds ==
    /\ wpc = "sleep"
    /\ LoopTop(current_task_id, tasks[current_task_id], idx + 1)
    /\ ret' = NoRet
    /\ UNCHANGED <<mail, flow, logs, history>>
    /\ UNCHANGED <<pending, current_task_id, accounts_config>>

\* ------------------------------------------------------------------ worker
RECURSIVE SkipNotPending(_)
SkipNotPending(q) ==
    IF q = <<>> THEN q
    ELSE IF tasks[Head(q)].status = PENDING THEN q
    ELSE SkipNotPending(Tail(q))

\* the worker takes the next PENDING job and marks it RUNNING, or stops
WorkerDequeue ==
    /\ wpc = "dequeue"
    /\ LET q == SkipNotPending(pending)
       IN IF q = <<>>
          THEN /\ wpc' = "idle"
               /\ pending' = q
               /\ UNCHANGED <<tasks, current_task_id>>
          ELSE /\ pending' = Tail(q)
               /\ current_task_id' = Head(q)
               /\ tasks' = [tasks EXCEPT ![Head(q)].status = RUNNING]
               /\ wpc' = "run"
    /\ ret' = NoRet
    /\ UNCHANGED <<mail, flow, logs, history>>
    /\ UNCHANGED <<idx, executing, future, accounts_config>>

\* the worker going back to its queue without letting go of the job
WorkerRelease_Keeps ==
    /\ wpc = "release"
    /\ wpc' = "dequeue"
    /\ ret' = NoRet
    /\ UNCHANGED <<mail, flow, logs, history>>
    /\ UNCHANGED <<tasks, pending, current_task_id, idx, executing, future,
                   accounts_config>>

\* the job's coroutine has returned: the worker lets go of it
WorkerRelease ==
    /\ wpc = "release"
    /\ current_task_id' = NoTask
    /\ wpc' = "dequeue"
    /\ ret' = NoRet
    /\ UNCHANGED <<mail, flow, logs, history>>
    /\ UNCHANGED <<tasks, pending, idx, executing, future, accounts_config>>

\* ------------------------------------------------------------------ mailbox polling
\* Time is counted in ticks; a unit (a second for GPTMail, a millisecond for
\* MoeMail) is TicksPerUnit ticks, so a datetime can lie between two units.
MaxTs == 2            \* latest message time, in units
TicksPerUnit == 2
MaxPollAttempts == 2  \* largest configured verification_poll_attempts
MaxPollInterval == 2  \* largest configured verification_poll_interval_seconds
MaxTicks == MaxTs * TicksPerUnit

\* emails[:10] / messages[:10]
ScanLimit == 10

Providers == {"gptmail", "moemail"}
Codes == {"111111", "222222", "999999"}

\* the timestamp field of a list entry: its JSON type and the time it denotes
Timestamps ==
    {[type |-> "int", ticks |-> u * TicksPerUnit] : u \in 0..MaxTs} \cup
    {[type |-> "float", ticks |-> k] : k \in 0..MaxTicks} \cup
    {[type |-> "str", ticks |-> 0], [type |-> "none", ticks |-> 0]}

\* plain and rendered body, as sequences of words
Bodies ==
    {[text |-> <<"x">>, html |-> <<>>],
     [text |-> <<"111111">>, html |-> <<>>],
     [text |-> <<"111111">>, html |-> <<"x">>],
     [text |-> <<>>, html |-> <<"222222">>]}

\* id: the list entry has an id; detail: what the detail request does.
\* Readable entries of every timestamp and body, and entries with a fresh code
\* that have no id or whose detail request fails.
Messages ==
    {[id |-> TRUE, ts |-> ts, detail |-> "ok", text |-> b.text, html |-> b.html] :
        ts \in Timestamps, b \in Bodies} \cup
    {[id |-> i, ts |-> [type |-> "int", ticks |-> MaxTicks], detail |-> d,
      text |-> <<"111111">>, html |-> <<>>] :
        i \in BOOLEAN, d \in {"status", "raises"}}

Filler == [id |-> TRUE, ts |-> [type |-> "int", ticks |-> MaxTicks],
           detail |-> "ok", text |-> <<"x">>, html |-> <<>>]
Fresh == [id |-> TRUE, ts |-> [type |-> "int", ticks |-> MaxTicks],
          detail |-> "ok", text |-> <<"999999">>, html |-> <<>>]
Fillers(k) == [j \in 1..k |-> Filler]

\* the mailboxes tried: empty, or one message of any kind, alone or next to a
\* fresh message with a code, behind 0, 9 or 10 messages without a code
Mailboxes ==
    {<<>>} \cup
    {Fillers(k) \o tail :
        k \in {0, ScanLimit - 1, ScanLimit},
        tail \in UNION {{<<m>>, <<m, Fresh>>, <<Fresh, m>>} : m \in Messages}}

\* extract_verification_code(content): the first code in the text, or None
RECURSIVE extract_verification_code(_)
extract_verification_code(content) ==
    IF content = <<>> THEN None
    ELSE IF Head(content) \in Codes THEN Head(content)
    ELSE extract_verification_code(Tail(content))

\* gptmail 129: int(since_time.timestamp()); moemail 136: int(since_time.timestamp() * 1000)
SinceUnits(since_time) == since_time \div TicksPerUnit

\* gptmail 136-138, moemail 143-145: the entry is older than the threshold
Skipped(provider, m, since_time) ==
    LET since == SinceUnits(since_time) IN
    IF provider = "gptmail"
    THEN since # 0 /\ m.ts.type = "int" /\ m.ts.ticks < since * TicksPerUnit
    ELSE \* received_at or receivedAt or sent_at: a zero value counts as absent
         /\ since # 0
         /\ m.ts.type \in {"int", "float"}
         /\ m.ts.ticks # 0
         /\ m.ts.ticks < since * TicksPerUnit

\* gptmail 151, moemail 155-157
Content(provider, m) ==
    IF provider = "gptmail" THEN m.text \o m.html
    ELSE IF m.html # <<>> THEN m.html ELSE m.text

\* the scan ending at the first entry whose detail request fails (return
\* instead of continue at gptmail 142-148, moemail 149-151)
RECURSIVE Scan_StopAtUnreadable(_, _, _, _)
Scan_StopAtUnreadable(provider, emails, since_time, k) ==
    IF k > Len(emails) \/ k > ScanLimit THEN 0
    ELSE LET m == emails[k] IN
         IF ~m.id THEN Scan_StopAtUnreadable(provider, emails, since_time, k + 1)
         ELSE IF Skipped(provider, m, since_time)
              THEN Scan_StopAtUnreadable(provider, emails, since_time, k + 1)
         ELSE IF m.detail # "ok" THEN 0
         ELSE IF extract_verification_code(Content(provider, m)) # None THEN k
         ELSE Scan_StopAtUnreadable(provider, emails, since_time, k + 1)

\* The scan of the list from entry k on: the index of the entry whose code is
\* returned, or 0 when the fetch returns None.
RECURSIVE Scan(_, _, _, _)
Scan(provider, emails, since_time, k) ==
    IF k > Len(emails) \/ k > ScanLimit THEN 0
    ELSE LET m == emails[k] IN
         IF ~m.id THEN Scan(provider, emails, since_time, k + 1)
         ELSE IF Skipped(provider, m, since_time)
              THEN Scan(provider, emails, since_time, k + 1)
         ELSE IF m.detail = "raises" THEN 0
         ELSE IF m.detail = "status" THEN Scan(provider, emails, since_time, k + 1)
         ELSE IF extract_verification_code(Content(provider, m)) # None THEN k
         ELSE Scan(provider, emails, since_time, k + 1)

\* fetch_verification_code(since_time); list_ok: the list request answered 200
\* with a well-formed payload
fetch_verification_code(provider, emails, since_time, list_ok) ==
    IF ~list_ok THEN 0
    ELSE IF emails = <<>> THEN 0
    ELSE Scan(provider, emails, since_time, 1)

Max(a, b) == IF a > b THEN a ELSE b

\* _poll_for_verification_code (489-494) calling poll_for_code, up to the
\* first fetch
PollStart ==
    /\ mail.pc = "idle"
    /\ \E attempts \in 0..MaxPollAttempts, interval \in 0..MaxPollInterval :
         LET poll_attempts == Max(1, attempts)
             poll_interval == Max(1, interval)
             poll_timeout == poll_attempts * poll_interval
         IN mail' = [mail EXCEPT !.pc = "fetch",
                                 !.timeout = poll_timeout,
                                 !.interval = poll_interval,
                                 !.max_retries = Max(1, poll_timeout \div poll_interval),
                                 !.i = 1]
    /\ UNCHANGED <<tasks, pending, current_task_id, wpc, idx, executing,
                   future, accounts_config, ret, flow, logs, history>>

\* the sleep taken after every fetch, the last one included
MoreRounds_AfterLast(m) == m.i <= m.max_retries

\* for i in range(1, max_retries + 1): i <= max_retries and this is not the last round
MoreRounds(m) == m.i < m.max_retries

\* one round of poll_for_code: fetch, then return the code, sleep, or give up
PollRound ==
    /\ mail.pc = "fetch"
    /\ \E list_ok \in BOOLEAN :
         LET k == fetch_verification_code(mail.provider, mail.emails,
                                          mail.since_time, list_ok)
             m1 == [mail EXCEPT !.listed = @ \/ list_ok]
         IN  IF k # 0
             THEN mail' = [m1 EXCEPT
                             !.pc = "done", !.from = k,
                             !.code = extract_verification_code(
                                          Content(mail.provider, mail.emails[k]))]
             ELSE IF MoreRounds(mail)
             THEN mail' = [m1 EXCEPT !.pc = "sleep"]
             ELSE mail' = [m1 EXCEPT !.pc = "done", !.code = None]
    /\ UNCHANGED <<tasks, pending, current_task_id, wpc, idx, executing,
                   future, accounts_config, ret, flow, logs, history>>

\* time.sleep(interval) returns
PollWake ==
    /\ mail.pc = "sleep"
    /\ mail' = [mail EXCEPT !.pc = "fetch", !.i = @ + 1, !.slept = @ + mail.interval]
    /\ UNCHANGED <<tasks, pending, current_task_id, wpc, idx, executing,
                   future, accounts_config, ret, flow, logs, history>>

MailOff == [pc |-> "off"]

InitMail ==
    /\ tasks = <<>>
    /\ pending = <<>>
    /\ current_task_id = NoTask
    /\ wpc = "idle"
    /\ idx = 0
    /\ executing = {}
    /\ future = "none"
    /\ accounts_config = FALSE
    /\ ret = NoRet
    /\ flow = [pc |-> "off"]
    /\ logs = LogsOff
    /\ history = HistoryOff
    /\ \E provider \in Providers, emails \in Mailboxes, since_time \in 0..MaxTicks :
         mail = [pc |-> "idle", provider |-> provider, emails |-> emails,
                 since_time |-> since_time, timeout |-> 0, interval |-> 0,
                 max_retries |-> 0, i |-> 0, code |-> None, from |-> 0,
                 slept |-> 0, listed |-> FALSE]

NextMail ==
    \/ PollStart
    \/ PollRound
    \/ PollWake

SpecMail == InitMail /\ [][NextMail]_vars

\* poll_for_code runs on the attempt's thread, which the executor keeps running
FairMail == SpecMail /\ WF_vars(NextMail)

\* ------------------------------------------------------------------ one attempt
\* _register_one (register_service.py 141-307) on the executor thread, driving
\* login_and_extract of the automation (gemini_automation_patchright.py), for
\* the job the worker is running.  Each action is one stretch of the attempt's
\* thread; cancel_task and the cancellation hook run on the event loop thread,
\* between any two of them.
MaxResend == 2      \* largest configured verification_resend_clicks
MaxFlowCount == 2   \* attempts of the job whose attempts are followed in detail

orch == <<tasks, pending, current_task_id, wpc, idx, executing, future,
          accounts_config, ret>>

\* what the flow reads of page.url: the business host, the session-index
\* parameter "csesidx=" and the client-id path segment "/cid/"
URLs == [business : BOOLEAN, csesidx : BOOLEAN, cid : BOOLEAN]
NoURL == [business |-> FALSE, csesidx |-> FALSE, cid |-> FALSE]

\* the automation object after __init__ (lines 71-74: no playwright, context or
\* profile directory yet), no hook registered, nothing polled or clicked
NewFlow ==
    [pc |-> "idle", resend_clicks |-> 0, attempt |-> 0,
     polls |-> 0, clicks |-> 0, code |-> FALSE, c |-> 0, h |-> 0,
     result |-> "none", exc |-> "none", out |-> "none",
     raised |-> FALSE, hook |-> FALSE, url |-> NoURL, config |-> "none",
     submit_attempt |-> 0, round |-> 0, rounds |-> 0, submits |-> 0,
     verify_page |-> FALSE, param_polls |-> 0, reloads |-> 0,
     persisted |-> FALSE,
     playwright |-> FALSE, user_data_dir |-> FALSE, context |-> FALSE,
     pw_running |-> FALSE, dir_exists |-> FALSE, ctx_open |-> FALSE]

\* the error texts of the results
SendButtonNotFound == "send code button not found"
CodeInputNotFound == "code input not found"
VerificationTimeout == "verification code timeout"
ResendButtonNotFound == "resend code button not found"
VerificationTimeoutAfterResend == "verification code timeout after resend"
MailFailed == "mail generation failed"
CodeInputExpired == "code input expired"
VerificationSubmitFailed == "verification code submission failed"
ParamsMissing == "URL parameters not found"
ConfigNotFound == "cid not found"
ExtractError == "extract error"
AutomationError == "automation error"

\* the log callback given to the automation and to the mail client,
\* lambda level, message: self._append_log(task, level, message): called on the
\* attempt's thread it raises TaskCancelledError once cancellation of the job
\* was requested
Raises == tasks[current_task_id].cancel_requested

\* the loop variables of the wait for the redirect (lines 351-352) and what it
\* read of the URL, dropped when the wait is over
WaitOver(f) ==
    [f EXCEPT !.submit_attempt = 0, !.round = 0, !.rounds = 0, !.submits = 0,
              !.verify_page = FALSE]

\* how far the wait for the URL parameters (lines 412-418) has come, dropped
\* when it is over
ParamsOver(f) == [f EXCEPT !.param_polls = 0, !.reloads = 0]

\* the locals of _run_flow go with it
RunFlowOver(f) == [ParamsOver(WaitOver(f)) EXCEPT !.url = NoURL]

\* TaskCancelledError leaves _run_flow: login_and_extract re-raises it (lines
\* 90-91) and runs its finally clause
Propagate(f) ==
    [RunFlowOver(f) EXCEPT !.raised = TRUE, !.exc = "cancelled",
                           !.pc = "finally", !.c = 1]

\* _run_flow returns a result: login_and_extract runs its finally clause; the
\* URL the flow read is a local of _run_flow and goes with it
Return(f, result) ==
    [RunFlowOver(f) EXCEPT !.result = result, !.pc = "finally", !.c = 1]

\* return {"success": False, "error": reason}
Fail(f, reason) == Return(f, reason)

\* login_and_extract without its except Exception clause
Unexpected_Escapes(f) ==
    [RunFlowOver(f) EXCEPT !.exc = "error", !.pc = "finally", !.c = 1]

\* any other exception leaves _create_context, _run_warmup or _run_flow
Unexpected(f) == [RunFlowOver(f) EXCEPT !.pc = "except"]

\* self._log(level, message) of the automation (lines 662-670) followed by the
\* rest of the step
Log(f, rest) == IF Raises THEN Propagate(f) ELSE rest

\* lines 141-147: _register_one starts on the executor's thread with three
\* log calls, outside every try
RegisterOneStart ==
    /\ flow.pc \in {"idle", "joined"}
    /\ future = "pending"
    /\ flow' = IF Raises
               THEN [NewFlow EXCEPT !.pc = "returned", !.raised = TRUE,
                                    !.out = "cancelled"]
               ELSE [NewFlow EXCEPT !.pc = "mailbox"]
    /\ UNCHANGED <<orch, mail, logs, history>>

\* lines 149-259: the mailbox is generated and its outcome logged (168, 171,
\* 196, 200, 212, 215, 221, outside every try), then the automation is built
\* and the hook that stops it is registered
MakeMailbox ==
    /\ flow.pc = "mailbox"
    /\ IF Raises
       THEN flow' = [flow EXCEPT !.pc = "returned", !.raised = TRUE,
                                 !.out = "cancelled"]
       ELSE \E mail_ok \in BOOLEAN, clicks \in -1..MaxResend :
              flow' = IF mail_ok
                      THEN [flow EXCEPT !.pc = "login", !.hook = TRUE,
                                        !.resend_clicks = Max(0, clicks)]
                      ELSE [flow EXCEPT !.pc = "returned", !.out = MailFailed]
    /\ UNCHANGED <<orch, mail, logs, history>>

\* lines 261-263 and 85-86: login_and_extract is called.  A TaskCancelledError
\* of the log call of line 262 is caught at line 264, whose own log call (265)
\* raises it again.
LoginStart ==
    /\ flow.pc = "login"
    /\ flow' = IF Raises
               THEN [flow EXCEPT !.pc = "returned", !.raised = TRUE,
                                 !.out = "cancelled"]
               ELSE [flow EXCEPT !.pc = "start"]
    /\ UNCHANGED <<orch, mail, logs, history>>

\* line 100: the playwright driver is started and stored
StartDriver ==
    /\ flow.pc = "start"
    /\ flow' = [flow EXCEPT !.pc = "mkdtemp", !.playwright = TRUE,
                            !.pw_running = TRUE]
    /\ UNCHANGED <<orch, mail, logs, history>>

\* line 101: tempfile.mkdtemp
MakeUserDataDir ==
    /\ flow.pc = "mkdtemp"
    /\ flow' = [flow EXCEPT !.pc = "launch", !.user_data_dir = TRUE,
                            !.dir_exists = TRUE]
    /\ UNCHANGED <<orch, mail, logs, history>>

\* line 142, the call: self._playwright.chromium raises AttributeError when the
\* field is None
LaunchStart ==
    /\ flow.pc = "launch"
    /\ flow' = IF flow.playwright THEN [flow EXCEPT !.pc = "launching"]
               ELSE Unexpected(flow)
    /\ UNCHANGED <<orch, mail, logs, history>>

\* line 142, the return: the browser context is open and stored, or the launch
\* raised (it does when the driver was stopped)
LaunchEnd ==
    /\ flow.pc = "launching"
    /\ \E launched \in (IF flow.pw_running THEN BOOLEAN ELSE {FALSE}) :
         flow' = IF launched
                 THEN [flow EXCEPT !.pc = "warmup", !.context = TRUE,
                                   !.ctx_open = TRUE]
                 ELSE Unexpected(flow)
    /\ UNCHANGED <<orch, mail, logs, history>>

\* lines 148-169 (self._context is read again) and 87-88, 171-180: the warmup,
\* when enabled, logs every page it visits
Warmup ==
    /\ flow.pc = "warmup"
    /\ \E warmup_enabled \in BOOLEAN :
         flow' = IF ~flow.context THEN Unexpected(flow)
                 ELSE IF warmup_enabled THEN Log(flow, [flow EXCEPT !.pc = "open"])
                 ELSE [flow EXCEPT !.pc = "open"]
    /\ UNCHANGED <<orch, mail, logs, history>>

\* line 270 testing for both parameters
HasBusinessParams_Both(url) == url.business /\ url.csesidx /\ url.cid

\* lines 270-272: the test for a session that is already signed in
HasBusinessParams(url) == url.business /\ (url.csesidx \/ url.cid)

\* lines 227-275: the landing page, the cookies and the deep link; the URL the
\* browser ends on decides between the shortcut to _extract_config and the
\* send-code step
OpenLogin ==
    /\ flow.pc = "open"
    /\ \E raises \in (IF flow.ctx_open THEN BOOLEAN ELSE {TRUE}), url \in URLs :
         flow' = Log(flow, IF raises THEN Unexpected(flow)
                           ELSE IF HasBusinessParams(url)
                                THEN [flow EXCEPT !.pc = "extract", !.url = url]
                           ELSE [flow EXCEPT !.pc = "send", !.url = url])
    /\ UNCHANGED <<orch, mail, logs, history>>

\* lines 277-282
SendCode ==
    /\ flow.pc = "send"
    /\ \E found \in (IF flow.ctx_open THEN BOOLEAN ELSE {FALSE}) :
         flow' = Log(flow, IF found THEN [flow EXCEPT !.pc = "input"]
                           ELSE Fail(flow, SendButtonNotFound))
    /\ UNCHANGED <<orch, mail, logs, history>>

\* lines 284-290
WaitCodeInput ==
    /\ flow.pc = "input"
    /\ \E found \in (IF flow.ctx_open THEN BOOLEAN ELSE {FALSE}) :
         flow' = Log(flow, IF found THEN [flow EXCEPT !.pc = "poll"]
                           ELSE Fail(flow, CodeInputNotFound))
    /\ UNCHANGED <<orch, mail, logs, history>>

\* lines 293-294: _poll_for_verification_code is called
PollBegin ==
    /\ flow.pc = "poll"
    /\ flow' = Log(flow, [flow EXCEPT !.pc = "polling"])
    /\ UNCHANGED <<orch, mail, logs, history>>

\* poll_for_code returns: one poll cycle is over, with a code or without.  Its
\* last log call goes through the mail client's _log (gptmail 198-203, moemail
\* 190-195), whose handler passes over whatever the callback raises.
PollCycle(f, got) ==
    [f EXCEPT !.polls = @ + 1, !.code = got, !.raised = @ \/ Raises]

\* a poll that waits for the code without a limit, on a mailbox that stays
\* empty
PollEnd_Unbounded ==
    /\ flow.pc = "polling"
    /\ FALSE
    /\ UNCHANGED vars

\* line 294: _poll_for_verification_code returns
PollEnd ==
    /\ flow.pc = "polling"
    /\ \E got \in BOOLEAN : flow' = [PollCycle(flow, got) EXCEPT !.pc = "polled"]
    /\ UNCHANGED <<orch, mail, logs, history>>

\* range(self.verification_resend_clicks + 1)
ResendLoopContinues_OneMore(f, attempt) == attempt <= f.resend_clicks

\* line 301: for attempt in range(self.verification_resend_clicks)
ResendLoopContinues(f, attempt) == attempt < f.resend_clicks

\* lines 301 and 311-314: the next iteration of the resend loop, or its end
\* without a code
ResendLoop(f, attempt) ==
    IF ResendLoopContinues(f, attempt)
    THEN [f EXCEPT !.pc = "resend", !.attempt = attempt]
    ELSE Log(f, Fail(f, VerificationTimeoutAfterResend))

\* the loop of lines 301-310 without the break of lines 309-310
AfterPoll_NoBreak(f) ==
    IF f.pc = "repolled" THEN ResendLoop(f, f.attempt + 1)
    ELSE IF f.code THEN Log(f, [f EXCEPT !.pc = "submit"])
    ELSE IF f.resend_clicks <= 0 THEN Log(f, Fail(f, VerificationTimeout))
    ELSE Log(f, ResendLoop(f, 0))

\* lines 295-300 after the first poll cycle, lines 309-314 after a later one,
\* and line 316
AfterPoll(f) ==
    IF f.code THEN Log(f, [f EXCEPT !.pc = "submit"])
    ELSE IF f.pc = "repolled" THEN ResendLoop(f, f.attempt + 1)
    ELSE IF f.resend_clicks <= 0 THEN Log(f, Fail(f, VerificationTimeout))
    ELSE Log(f, ResendLoop(f, 0))

AfterFirstPoll ==
    /\ flow.pc = "polled"
    /\ flow' = AfterPoll(flow)
    /\ UNCHANGED <<orch, mail, logs, history>>

\* the resend loop going on to its poll cycle without a button
ResendClick_KeepsPolling ==
    /\ flow.pc = "resend"
    /\ \E found \in (IF flow.ctx_open THEN BOOLEAN ELSE {FALSE}) :
         flow' = IF found
                 THEN Log(flow, [flow EXCEPT !.clicks = @ + 1, !.pc = "repolling"])
                 ELSE Log(flow, [flow EXCEPT !.pc = "repolling"])
    /\ UNCHANGED <<orch, mail, logs, history>>

\* lines 302-308 and 510-529: the resend button is looked for and clicked, and
\* the next poll cycle is started.  A TaskCancelledError of the log call of
\* line 521 is passed over at line 525 before the click; the button then counts
\* as not found and the log call of line 304 raises again.
ResendClick ==
    /\ flow.pc = "resend"
    /\ \E found \in (IF flow.ctx_open THEN BOOLEAN ELSE {FALSE}) :
         flow' = IF found
                 THEN Log(flow, [flow EXCEPT !.clicks = @ + 1, !.pc = "repolling"])
                 ELSE Log(flow, Fail(flow, ResendButtonNotFound))
    /\ UNCHANGED <<orch, mail, logs, history>>

\* line 308 returns
RepollEnd ==
    /\ flow.pc = "repolling"
    /\ \E got \in BOOLEAN : flow' = [PollCycle(flow, got) EXCEPT !.pc = "repolled"]
    /\ UNCHANGED <<orch, mail, logs, history>>

AfterRepoll ==
    /\ flow.pc = "repolled"
    /\ flow' = AfterPoll(flow)
    /\ UNCHANGED <<orch, mail, logs, history>>

\* lines 318-342: the code input is looked up again, the code typed and
\* submitted
EnterCode ==
    /\ flow.pc = "submit"
    /\ \E found \in (IF flow.ctx_open THEN BOOLEAN ELSE {FALSE}) :
         flow' = Log(flow, IF found THEN [flow EXCEPT !.pc = "redirect"]
                           ELSE Fail(flow, CodeInputExpired))
    /\ UNCHANGED <<orch, mail, logs, history>>

\* lines 347-348
max_submit_attempts == 3
wait_rounds == 5

\* lines 345-346: the wait for the redirect begins on the verification page
BeginWait ==
    /\ flow.pc = "redirect"
    /\ flow' = Log(flow, [flow EXCEPT !.pc = "waiting", !.verify_page = TRUE])
    /\ UNCHANGED <<orch, mail, logs, history>>

\* line 352: for _ in range(wait_rounds), after the round f.round
RoundsLeft(f) == f.round + 1 < wait_rounds

\* lines 352-359: one round of the wait: sleep, read page.url, and leave both
\* loops when it is no longer the verification page
WaitRound ==
    /\ flow.pc = "waiting"
    /\ \E left \in BOOLEAN :
         flow' = LET g == [flow EXCEPT !.rounds = @ + 1, !.verify_page = ~left]
                 IN  IF left THEN [g EXCEPT !.pc = "waited"]
                     ELSE IF RoundsLeft(flow) THEN [g EXCEPT !.round = @ + 1]
                     ELSE [g EXCEPT !.pc = "stuck"]
    /\ UNCHANGED <<orch, mail, logs, history>>

\* if attempt < max_submit_attempts
MaySubmitAgain_Always(f) == f.submit_attempt < max_submit_attempts

\* line 361: if attempt < max_submit_attempts - 1
MaySubmitAgain(f) == f.submit_attempt < max_submit_attempts - 1

\* lines 361-379 and 351: still on the verification page after the rounds of
\* this submit attempt: the code is submitted again (Enter, then the submit
\* button; inner_text() of line 370 is not guarded) and the next submit
\* attempt begins, or the loop is over
SubmitAgain ==
    /\ flow.pc = "stuck"
    /\ IF MaySubmitAgain(flow)
       THEN \E raises \in (IF flow.ctx_open THEN BOOLEAN ELSE {FALSE}) :
              flow' = Log(flow, IF raises THEN Unexpected(flow)
                                ELSE [flow EXCEPT !.pc = "waiting",
                                                  !.submits = @ + 1,
                                                  !.submit_attempt = @ + 1,
                                                  !.round = 0])
       ELSE flow' = [flow EXCEPT !.pc = "waited"]
    /\ UNCHANGED <<orch, mail, logs, history>>

\* lines 381-385 and 388-391: the URL the wait ended on decides between the
\* failure and the rest of the flow, which reads page.url again (line 391)
AfterWait ==
    /\ flow.pc = "waited"
    /\ \E raises \in BOOLEAN, url \in URLs :
         flow' = Log(flow,
                     IF flow.verify_page THEN Fail(flow, VerificationSubmitFailed)
                     ELSE IF raises THEN Unexpected(flow)
                     ELSE [WaitOver(flow) EXCEPT !.pc = "params", !.url = url])
    /\ UNCHANGED <<orch, mail, logs, history>>

\* lines 392-411: with the host and both parameters in the URL read at line
\* 391 the flow goes to _extract_config at once (393-395); otherwise the
\* business page is opened when the browser is not on its host (page.goto is
\* not guarded), the username is set up where asked for (549-612, guarded),
\* and the wait for the URL parameters begins
Negotiate ==
    /\ flow.pc = "params"
    /\ IF HasBusinessParams_Both(flow.url)
       THEN flow' = Log(flow, [flow EXCEPT !.pc = "extract"])
       ELSE \E raises \in (IF flow.url.business THEN {FALSE}
                           ELSE IF flow.ctx_open THEN BOOLEAN ELSE {TRUE}) :
              flow' = Log(flow, IF raises THEN Unexpected(flow)
                                ELSE [flow EXCEPT !.pc = "paramwait",
                                                  !.url = NoURL])
    /\ UNCHANGED <<orch, mail, logs, history>>

\* line 542: if "csesidx=" in url or "/cid/" in url
ParamsReady(url) == url.csesidx \/ url.cid

\* lines 412-413 and 539-547: the first wait for the parameters, of at most 30
\* readings of page.url one second apart; url is the last URL it read
WaitParams ==
    /\ flow.pc = "paramwait"
    /\ \E url \in URLs :
         flow' = Log(flow, IF ParamsReady(url)
                           THEN [ParamsOver(flow) EXCEPT !.pc = "extract",
                                                         !.url = url]
                           ELSE [flow EXCEPT !.pc = "reload", !.param_polls = @ + 1])
    /\ UNCHANGED <<orch, mail, logs, history>>

\* lines 414-418: page.reload, guarded, and a sleep
ReloadPage ==
    /\ flow.pc = "reload"
    /\ flow' = [flow EXCEPT !.pc = "paramwait2", !.reloads = @ + 1]
    /\ UNCHANGED <<orch, mail, logs, history>>

\* lines 418-424, 427 and 539-547: the second wait, and the failure when it
\* ends without a parameter as well
WaitParamsAgain ==
    /\ flow.pc = "paramwait2"
    /\ \E url \in URLs :
         flow' = Log(flow, IF ParamsReady(url)
                           THEN [ParamsOver(flow) EXCEPT !.pc = "extract",
                                                         !.url = url]
                           ELSE Fail(flow, ParamsMissing))
    /\ UNCHANGED <<orch, mail, logs, history>>

\* the result of _extract_config for the URL it reads at line 621
Extracted(f, url) ==
    IF ~url.cid THEN Fail(f, ConfigNotFound)
    ELSE [Return(f, "ok") EXCEPT
            !.config = IF url.csesidx THEN "config" ELSE "config without csesidx"]

\* _extract_config, lines 614-650: without a client id in the URL the business
\* page is opened first; whatever is raised becomes a failed result
ExtractConfig ==
    /\ flow.pc = "extract"
    /\ \E raises \in (IF flow.ctx_open THEN BOOLEAN ELSE {TRUE}), url \in URLs :
         flow' = IF raises THEN Fail(flow, ExtractError)
                 ELSE IF flow.url.cid THEN Extracted(flow, flow.url)
                 ELSE Extracted(flow, url)
    /\ UNCHANGED <<orch, mail, logs, history>>

\* lines 92-94: except Exception in login_and_extract
AutomationExcept ==
    /\ flow.pc = "except"
    /\ flow' = Log(flow, Fail(flow, AutomationError))
    /\ UNCHANGED <<orch, mail, logs, history>>

\* _cleanup (lines 672-690), statement by statement; it is run by the
\* attempt's thread (finally, line 96) and by the thread that calls stop()
\* (lines 76-81), without any lock
CleanupLast == 6

CleanupStatement(f, k) ==
    IF k = 1 THEN \* 674-678: if self._context: self._context.close()
         IF f.context THEN [f EXCEPT !.ctx_open = FALSE] ELSE f
    ELSE IF k = 2 THEN \* 679
         [f EXCEPT !.context = FALSE]
    ELSE IF k = 3 THEN \* 681-685: if self._playwright: self._playwright.stop()
         \* (a stopped driver takes the browser it launched with it)
         IF f.playwright THEN [f EXCEPT !.pw_running = FALSE, !.ctx_open = FALSE]
         ELSE f
    ELSE IF k = 4 THEN \* 686
         [f EXCEPT !.playwright = FALSE]
    ELSE IF k = 5 THEN \* 688-689: self._cleanup_user_data(self._user_data_dir)
         IF f.user_data_dir THEN [f EXCEPT !.dir_exists = FALSE] ELSE f
    ELSE \* 690
         [f EXCEPT !.user_data_dir = FALSE]

\* the finally clause of login_and_extract, one statement of _cleanup at a time
FinallyCleanup ==
    /\ flow.pc = "finally"
    /\ flow' = LET g == CleanupStatement(flow, flow.c)
               IN  IF flow.c = CleanupLast
                   THEN [g EXCEPT !.pc = "wrapper", !.c = 0]
                   ELSE [g EXCEPT !.c = @ + 1]
    /\ UNCHANGED <<orch, mail, logs, history>>

\* stop() called by the cancellation hook, one statement of _cleanup at a time
HookCleanup ==
    /\ flow.h > 0
    /\ flow' = LET g == CleanupStatement(flow, flow.h)
               IN  IF flow.h = CleanupLast
                   THEN [g EXCEPT !.h = 0]
                   ELSE [g EXCEPT !.h = @ + 1]
    /\ UNCHANGED <<orch, mail, logs, history>>

\* lines 264-273: what _register_one does with the outcome of
\* login_and_extract: an exception becomes a failed result (264-266), a failed
\* result is returned (268-271), a config goes on to be saved (273)
RegisterOneEnd ==
    /\ flow.pc = "wrapper"
    /\ flow' = IF flow.exc = "none" /\ flow.result = "ok" /\ ~Raises
               THEN [flow EXCEPT !.pc = "saving"]
               ELSE [flow EXCEPT
                       !.pc = "returned",
                       !.raised = @ \/ Raises,
                       !.out = IF Raises THEN "cancelled"
                               ELSE IF flow.exc # "none" THEN AutomationError
                               ELSE flow.result]
    /\ UNCHANGED <<orch, mail, logs, history>>

\* lines 275-300: the config is completed, the stored accounts are loaded, the
\* config replaces the account of its id or is appended, and the list is
\* handed to self._apply_accounts_update; an update that raises is taken to
\* leave the stored list as it was
SaveConfig ==
    /\ flow.pc = "saving"
    /\ \E saved \in BOOLEAN :
         flow' = IF saved THEN [flow EXCEPT !.pc = "saved", !.persisted = TRUE]
                 ELSE [flow EXCEPT !.pc = "returned", !.out = "exc"]
    /\ UNCHANGED <<orch, mail, logs, history>>

\* lines 302-307: four log calls, then the successful result
SavedResult(f) == IF Raises THEN "cancelled" ELSE "ok"

RegisterOneLogs ==
    /\ flow.pc = "saved"
    /\ flow' = [flow EXCEPT !.pc = "returned",
                            !.raised = @ \/ Raises,
                            !.out = SavedResult(flow)]
    /\ UNCHANGED <<orch, mail, logs, history>>

\* the executor hands the outcome of _register_one to the awaiting coroutine
AttemptReturns ==
    /\ flow.pc = "returned"
    /\ future = "pending"
    /\ future' = flow.out
    /\ executing' = {}
    /\ flow' = [flow EXCEPT !.pc = "joined"]
    /\ ret' = NoRet
    /\ UNCHANGED <<tasks, pending, current_task_id, wpc, idx, accounts_config, mail,
                   logs, history>>

\* cancel_task for the running job: the flag is set and the registered hook
\* (register_service.py 259) calls stop() on the automation
CancelRunning ==
    /\ wpc \in {"await_attempt", "sleep"}
    /\ flow.h = 0
    /\ cancel_task(current_task_id)
    /\ flow' = [flow EXCEPT !.h = IF flow.hook THEN 1 ELSE 0]
    /\ UNCHANGED <<mail, logs, history>>

\* the worker coroutine runs on the event loop, so not while cancel_task does
FlowResumes ==
    /\ flow.h = 0
    /\ AttemptResumes

FlowSleepEnds ==
    /\ flow.h = 0
    /\ SleepEnds

\* a job of 1..MaxFlowCount attempts that the worker has just started (the
\* state RunStart leaves), its first attempt handed to the executor
InitFlow ==
    /\ \E count \in 1..MaxFlowCount :
         tasks = <<[NewTask(count) EXCEPT !.status = RUNNING]>>
    /\ pending = <<>>
    /\ current_task_id = 1
    /\ wpc = "await_attempt"
    /\ idx = 0
    /\ executing = {<<1, 0>>}
    /\ future = "pending"
    /\ accounts_config = FALSE
    /\ ret = NoRet
    /\ mail = MailOff
    /\ flow = NewFlow
    /\ logs = LogsOff
    /\ history = HistoryOff

NextFlow ==
    \/ RegisterOneStart
    \/ MakeMailbox
    \/ LoginStart
    \/ StartDriver
    \/ MakeUserDataDir
    \/ LaunchStart
    \/ LaunchEnd
    \/ Warmup
    \/ OpenLogin
    \/ SendCode
    \/ WaitCodeInput
    \/ PollBegin
    \/ PollEnd
    \/ AfterFirstPoll
    \/ ResendClick
    \/ RepollEnd
    \/ AfterRepoll
    \/ EnterCode
    \/ BeginWait
    \/ WaitRound
    \/ SubmitAgain
    \/ AfterWait
    \/ Negotiate
    \/ WaitParams
    \/ ReloadPage
    \/ WaitParamsAgain
    \/ ExtractConfig
    \/ AutomationExcept
    \/ FinallyCleanup
    \/ HookCleanup
    \/ RegisterOneEnd
    \/ SaveConfig
    \/ RegisterOneLogs
    \/ AttemptReturns
    \/ CancelRunning
    \/ FlowResumes
    \/ FlowSleepEnds

SpecFlow == InitFlow /\ [][NextFlow]_vars

\* the steps of the attempt's thread: at any time at most one of them is
\* enabled
AttemptStep ==
    \/ RegisterOneStart
    \/ MakeMailbox
    \/ LoginStart
    \/ StartDriver
    \/ MakeUserDataDir
    \/ LaunchStart
    \/ LaunchEnd
    \/ Warmup
    \/ OpenLogin
    \/ SendCode
    \/ WaitCodeInput
    \/ PollBegin
    \/ PollEnd
    \/ AfterFirstPoll
    \/ ResendClick
    \/ RepollEnd
    \/ AfterRepoll
    \/ EnterCode
    \/ BeginWait
    \/ WaitRound
    \/ SubmitAgain
    \/ AfterWait
    \/ Negotiate
    \/ WaitParams
    \/ ReloadPage
    \/ WaitParamsAgain
    \/ ExtractConfig
    \/ AutomationExcept
    \/ FinallyCleanup
    \/ RegisterOneEnd
    \/ SaveConfig
    \/ RegisterOneLogs
    \/ AttemptReturns

\* the executor keeps the attempt's thread running and every call it makes to
\* the browser or the mailbox returns or raises; stop() runs to its end; the
\* event loop runs its ready callbacks in turn, so that the worker coroutine
\* resumes however many cancel requests arrive
FairFlow ==
    /\ SpecFlow
    /\ WF_vars(AttemptStep)
    /\ WF_vars(HookCleanup)
    /\ SF_vars(FlowResumes)
    /\ SF_vars(FlowSleepEnds)

\* ------------------------------------------------------------------ specification
Init ==
    /\ tasks = <<>>
    /\ pending = <<>>
    /\ current_task_id = NoTask
    /\ wpc = "idle"
    /\ idx = 0
    /\ executing = {}
    /\ future = "none"
    /\ accounts_config \in BOOLEAN
    /\ ret = NoRet
    /\ mail = MailOff
    /\ flow = [pc |-> "off"]
    /\ logs = LogsOff
    /\ history = HistoryOff

Next ==
    \/ Submit
    \/ Cancel
    \/ SetEnviron
    \/ WorkerDequeue
    \/ RunStart
    \/ AttemptEnds
    \/ AttemptResumes
    \/ SleepEnds
    \/ WorkerRelease

Spec == Init /\ [][Next]_vars

\* the orchestrator with every start_register of a behaviour called with the
\* same count, under the same configured default; both are kept in mail
SubmitGiven ==
    /\ start_register(mail.count, mail.default)
    /\ UNCHANGED <<mail, flow, logs, history>>

InitSubmit ==
    /\ tasks = <<>>
    /\ pending = <<>>
    /\ current_task_id = NoTask
    /\ wpc = "idle"
    /\ idx = 0
    /\ executing = {}
    /\ future = "none"
    /\ accounts_config = FALSE
    /\ ret = NoRet
    /\ \E count \in CountInputs, default \in DefaultCounts :
         mail = [pc |-> "inputs", count |-> count, default |-> default]
    /\ flow = [pc |-> "off"]
    /\ logs = LogsOff
    /\ history = HistoryOff

NextSubmit ==
    \/ SubmitGiven
    \/ Cancel
    \/ SetEnviron
    \/ WorkerDequeue
    \/ RunStart
    \/ AttemptEnds
    \/ AttemptResumes
    \/ SleepEnds
    \/ WorkerRelease

SpecSubmit == InitSubmit /\ [][NextSubmit]_vars

\* the event loop runs every ready coroutine, and an attempt on the executor
\* thread ends (all its waits are bounded)
FairSpec ==
    /\ Spec
    /\ WF_vars(WorkerDequeue)
    /\ WF_vars(RunStart)
    /\ WF_vars(AttemptEnds)
    /\ WF_vars(AttemptResumes)
    /\ WF_vars(SleepEnds)
    /\ WF_vars(WorkerRelease)

\* ------------------------------------------------------------------ test service
\* DummyTaskService of tests/test_base_task_service.py: the base service with a
\* start that has no check for a job in progress, and a job of `steps` ticks.
\* The job record is the one of the base service, count holding steps.

\* start(steps): lines 29-33
DummyStart ==
    /\ \E steps \in 0..MaxCount :
         LET id == Len(tasks) + 1
         IN  /\ id <= MaxJobs
             /\ TotalCount(tasks) + steps <= MaxAttempts
             /\ tasks' = Append(tasks, NewTask(steps))
             /\ enqueue_task(id)
             /\ ret' = [op |-> "submit", out |-> "ok", id |-> id]
    /\ UNCHANGED <<current_task_id, idx, executing, future, accounts_config,
                   mail, flow, logs, history>>

\* _run ending with the job marked FAILED
DummyFinish_Failed(t) == [t EXCEPT !.status = FAILED, !.finished_at = Now]

\* lines 43-44
DummyFinish(t) == [t EXCEPT !.status = SUCCESS, !.finished_at = Now]

\* _run from the top of iteration i up to its next await (lines 39-41), or to
\* its end (lines 43-44); _append_log of a job whose cancellation was
\* requested raises, and the worker marks the job CANCELLED
DummyIteration(id, t, i) ==
    IF i < t.count
    THEN IF t.cancel_requested
         THEN /\ tasks' = [tasks EXCEPT ![id] = CancelledTask(t)]
              /\ wpc' = "release"
              /\ UNCHANGED idx
         ELSE /\ tasks' = [tasks EXCEPT ![id] = t]
              /\ idx' = i
              /\ wpc' = "sleep"
    ELSE /\ tasks' = [tasks EXCEPT ![id] = DummyFinish(t)]
         /\ wpc' = "release"
         /\ UNCHANGED idx

\* _execute_task, lines 35-39: the coroutine starts
DummyRunStart ==
    /\ wpc = "run"
    /\ DummyIteration(current_task_id, tasks[current_task_id], 0)
    /\ ret' = NoRet
    /\ UNCHANGED <<pending, current_task_id, executing, future, accounts_config,
                   mail, flow, logs, history>>

\* line 41 returns and line 42 counts the tick; a job whose cancellation was
\* requested during the sleep ends CANCELLED, at the sleep itself or at the
\* next _append_log
DummyWake ==
    /\ wpc = "sleep"
    /\ LET id == current_task_id
           t == tasks[id]
       IN  IF t.cancel_requested
           THEN /\ \E ticked \in {0, 1} :
                     tasks' = [tasks EXCEPT ![id] =
                                 CancelledTask([t EXCEPT !.progress = @ + ticked])]
                /\ wpc' = "release"
                /\ UNCHANGED idx
           ELSE DummyIteration(id, [t EXCEPT !.progress = @ + 1], idx + 1)
    /\ ret' = NoRet
    /\ UNCHANGED <<pending, current_task_id, executing, future, accounts_config,
                   mail, flow, logs, history>>

InitDummy ==
    /\ Init
    /\ ~accounts_config

NextDummy ==
    \/ DummyStart
    \/ Cancel
    \/ WorkerDequeue
    \/ DummyRunStart
    \/ DummyWake
    \/ WorkerRelease

SpecDummy == InitDummy /\ [][NextDummy]_vars

\* the event loop runs every ready coroutine
FairDummy ==
    /\ SpecDummy
    /\ WF_vars(WorkerDequeue)
    /\ WF_vars(DummyRunStart)
    /\ WF_vars(DummyWake)
    /\ WF_vars(WorkerRelease)

\* ------------------------------------------------------------------ job log
\* The orchestrator with the log of every job: the entries written by
\* start_register, by the loop of _run_register_async and, through log_cb, by
\* the attempt's thread. An entry is the time read from the clock and the line
\* of the call that wrote it.
MaxLogAttempts == 2     \* attempts requested by all jobs whose log is followed
MaxCallbackLogs == 2    \* log_cb calls followed in one attempt

NewLogs == [pc |-> "on", clock |-> 0, entries |-> <<>>, call |-> <<>>, calls |-> 0]

\* _append_log placing the entry in front of the log
append_log_Prepend(l, id, line) ==
    [l EXCEPT !.clock = @ + 1,
              !.entries[id] = <<[time |-> l.clock + 1, line |-> line]>> \o @]

\* _append_log(task, level, message) called on the event loop: the time is
\* read and the entry appended within one segment of the loop
append_log(l, id, line) ==
    [l EXCEPT !.clock = @ + 1,
              !.entries[id] = Append(@, [time |-> l.clock + 1, line |-> line])]

\* consecutive _append_log calls of one segment
RECURSIVE Written(_, _, _)
Written(l, id, lines) ==
    IF lines = <<>> THEN l
    ELSE Written(append_log(l, id, Head(lines)), id, Tail(lines))

\* lines 78-84: the accepted job gets its log and its first two entries
LogSubmit ==
    /\ \E count \in CountInputs, default \in DefaultCounts :
          start_register(count, default)
    /\ TotalCount(tasks') <= MaxLogAttempts
    /\ logs' = IF ret'.out = "ok"
               THEN Written([logs EXCEPT !.entries = Append(@, <<>>)],
                            ret'.id, <<81, 83>>)
               ELSE logs
    /\ UNCHANGED <<mail, flow, history>>

\* the _append_log calls of LoopTop: line 139 after the last iteration, line 96
\* on cancellation, line 102 before the attempt is handed over
LoopTopLines(t, i) ==
    IF ~LoopContinues(t, i) THEN <<139>>
    ELSE IF ShouldStop(t) THEN <<96>>
    ELSE <<102>>

\* lines 91-103
LogRunStart ==
    /\ wpc = "run"
    /\ LET id == current_task_id
           t == tasks[id]
       IN  /\ LoopTop(id, t, 0)
           /\ logs' = Written([logs EXCEPT !.calls = 0], id,
                              <<92>> \o LoopTopLines(t, 0))
    /\ ret' = NoRet
    /\ UNCHANGED <<pending, current_task_id, accounts_config, mail, flow, history>>

\* log_cb on the attempt's thread (line 143): _append_log reads the time
ThreadLogRead ==
    /\ logs.call = <<>>
    /\ logs.calls < MaxCallbackLogs
    /\ \E a \in executing :
         logs' = [logs EXCEPT !.clock = @ + 1,
                              !.calls = @ + 1,
                              !.call = <<[job |-> a[1], time |-> logs.clock + 1,
                                          line |-> 143]>>]
    /\ ret' = NoRet
    /\ UNCHANGED <<tasks, pending, current_task_id, wpc, idx, executing, future,
                   accounts_config, mail, flow, history>>

\* ... and appends the entry
ThreadLogAppend ==
    /\ logs.call # <<>>
    /\ LET c == logs.call[1]
       IN  logs' = [logs EXCEPT !.call = <<>>,
                                !.entries[c.job] =
                                    Append(@, [time |-> c.time, line |-> c.line])]
    /\ ret' = NoRet
    /\ UNCHANGED <<tasks, pending, current_task_id, wpc, idx, executing, future,
                   accounts_config, mail, flow, history>>

\* _register_one ends, between two calls of log_cb
LogAttemptEnds ==
    /\ logs.call = <<>>
    /\ AttemptEnds

\* lines 103-132 with lines 116, 120 and 131
LogAttemptResumes ==
    /\ wpc = "await_attempt"
    /\ future \notin {"none", "pending"}
    /\ LET id == current_task_id
           t == tasks[id]
       IN IF future = "cancelled"
          THEN /\ tasks' = [tasks EXCEPT ![id] = CancelledTask(t)]
               /\ wpc' = "release"
               /\ future' = "none"
               /\ UNCHANGED <<idx, executing, logs>>
          ELSE LET result == ResultOf(future)
                   t1 == RecordResult(t, result)
                   l1 == append_log(logs, id, IF result.success THEN 116 ELSE 120)
               IN \E delay_min \in DelayInputs, delay_max \in DelayInputs :
                    \E sleep_seconds \in SleepSeconds(t1, idx, delay_min, delay_max) :
                       IF sleep_seconds > 0
                       THEN /\ tasks' = [tasks EXCEPT ![id] = t1]
                            /\ wpc' = "sleep"
                            /\ future' = "none"
                            /\ logs' = append_log(l1, id, 131)
                            /\ UNCHANGED <<idx, executing>>
                       ELSE /\ LoopTop(id, t1, idx + 1)
                            /\ logs' = Written([l1 EXCEPT !.calls = 0], id,
                                               LoopTopLines(t1, idx + 1))
    /\ ret' = NoRet
    /\ UNCHANGED <<pending, current_task_id, accounts_config, mail, flow, history>>

\* line 132 returns: the next iteration starts
LogSleepEnds ==
    /\ wpc = "sleep"
    /\ LET id == current_task_id
           t == tasks[id]
       IN  /\ LoopTop(id, t, idx + 1)
           /\ logs' = Written([logs EXCEPT !.calls = 0], id,
                              LoopTopLines(t, idx + 1))
    /\ ret' = NoRet
    /\ UNCHANGED <<pending, current_task_id, accounts_config, mail, flow, history>>

InitLog ==
    /\ tasks = <<>>
    /\ pending = <<>>
    /\ current_task_id = NoTask
    /\ wpc = "idle"
    /\ idx = 0
    /\ executing = {}
    /\ future = "none"
    /\ accounts_config = FALSE
    /\ ret = NoRet
    /\ mail = MailOff
    /\ flow = [pc |-> "off"]
    /\ logs = NewLogs
    /\ history = HistoryOff

NextLog ==
    \/ LogSubmit
    \/ Cancel
    \/ WorkerDequeue
    \/ LogRunStart
    \/ ThreadLogRead
    \/ ThreadLogAppend
    \/ LogAttemptEnds
    \/ LogAttemptResumes
    \/ LogSleepEnds
    \/ WorkerRelease

SpecLog == InitLog /\ [][NextLog]_vars

\* ------------------------------------------------------------------ task history
\* The task_history table of core/storage.py: one row per id (primary key) with
\* its created_at; the payload of a row is not followed. The table keeps
\* HistoryCap rows where the source keeps 100 (OFFSET 100, line 454, and the
\* default limit of load_task_history, line 461).
HistoryCap == 2     \* rows kept by save_task_history_entry
MaxEntries == 4     \* entry ids 1..MaxEntries
MaxCreated == 3     \* timestamps 1..MaxCreated

Min(a, b) == IF a < b THEN a ELSE b

Row(id, created_at) == [id |-> id, created_at |-> created_at]

\* saved: every entry as it was last saved, whether its row still exists
NewHistory ==
    [pc |-> "on", table |-> {}, saved |-> {}, clock |-> 1,
     op |-> "none", limit |-> 0, loaded |-> <<>>]

\* created_at: Optional[float] = None
CreatedInputs == {[given |-> FALSE, value |-> 0]} \cup
                 {[given |-> TRUE, value |-> v] : v \in 0..MaxCreated}

\* line 431: float(created_at or time.time())
CreatedAt(created_at, now) ==
    IF ~created_at.given \/ created_at.value = 0 THEN now ELSE created_at.value

\* lines 436-447: INSERT ... ON CONFLICT (id) DO UPDATE
Upsert(table, row) == {r \in table : r.id # row.id} \cup {row}

\* lines 448-457: DELETE of the rows after the first 100 in ORDER BY created_at
\* DESC; rows of equal created_at come in any order
Keeps(rows, kept) ==
    /\ kept \subseteq rows
    /\ Cardinality(kept) = Min(HistoryCap, Cardinality(rows))
    /\ \A k \in kept, d \in rows \ kept : k.created_at >= d.created_at

\* save_task_history_entry(entry_id, data, created_at), one transaction
SaveEntry ==
    /\ \E entry_id \in 1..MaxEntries, created_at \in CreatedInputs,
          now \in history.clock..MaxCreated :
         LET row == Row(entry_id, CreatedAt(created_at, now))
             rows == Upsert(history.table, row)
         IN  \E kept \in SUBSET rows :
               /\ Keeps(rows, kept)
               /\ history' =
                    [history EXCEPT
                       !.table = kept,
                       !.saved = Upsert(@, row),
                       !.clock = now,
                       !.op = "save",
                       !.limit = 0,
                       !.loaded = <<>>]
    /\ UNCHANGED <<orch, mail, flow, logs>>

\* SELECT ... ORDER BY created_at DESC: the rows in one of the orders the
\* database may return them in
OrderedDesc(rows) ==
    {q \in [1..Cardinality(rows) -> rows] :
        /\ \A i, j \in DOMAIN q : i # j => q[i] # q[j]
        /\ \A i, j \in DOMAIN q : i <= j => q[i].created_at >= q[j].created_at}

\* load_task_history(limit), lines 461-475
LoadHistory ==
    /\ \E limit \in 1..HistoryCap, q \in OrderedDesc(history.table) :
         history' = [history EXCEPT
                       !.op = "load",
                       !.limit = limit,
                       !.loaded = SubSeq(q, 1, Min(limit, Len(q)))]
    /\ UNCHANGED <<orch, mail, flow, logs>>

InitHistory ==
    /\ tasks = <<>>
    /\ pending = <<>>
    /\ current_task_id = NoTask
    /\ wpc = "idle"
    /\ idx = 0
    /\ executing = {}
    /\ future = "none"
    /\ accounts_config = FALSE
    /\ ret = NoRet
    /\ mail = MailOff
    /\ flow = [pc |-> "off"]
    /\ logs = LogsOff
    /\ history = NewHistory

NextHistory ==
    \/ SaveEntry
    \/ LoadHistory

SpecHistory == InitHistory /\ [][NextHistory]_vars

\* ------------------------------------------------------------------ poll cycles of one attempt
\* The poll cycles of _run_flow (gemini_automation_patchright.py 227, 293-314)
\* against a mailbox that receives messages while the clock advances.  Time is
\* counted in ticks, TicksPerUnit of them to the unit the provider stamps its
\* messages in, and the attempt begins one unit after the epoch.
MaxArrivals == 2    \* messages that reach the mailbox during the attempt
MaxClock == 5       \* the last tick the clock reaches during the attempt

\* a message that reaches the mailbox at tick t: the provider stamps it in
\* whole units
Arrival(t, c) ==
    [id |-> TRUE, ts |-> [type |-> "int", ticks |-> (t \div TicksPerUnit) * TicksPerUnit],
     detail |-> "ok", text |-> <<c>>, html |-> <<>>, arrived |-> t]

\* the clock advances
ClockTick ==
    /\ mail.pc \notin {"off", "done"}
    /\ mail.now < MaxClock
    /\ mail' = [mail EXCEPT !.now = @ + 1]
    /\ UNCHANGED <<tasks, pending, current_task_id, wpc, idx, executing,
                   future, accounts_config, ret, flow, logs, history>>

\* a message with a code reaches the mailbox, listed before the older ones
MailArrives ==
    /\ mail.pc \notin {"off", "done"}
    /\ Len(mail.emails) < MaxArrivals
    /\ \E c \in Codes :
         mail' = [mail EXCEPT !.emails = <<Arrival(mail.now, c)>> \o @]
    /\ UNCHANGED <<tasks, pending, current_task_id, wpc, idx, executing,
                   future, accounts_config, ret, flow, logs, history>>

\* line 227: send_time = datetime.now(), then the code is requested (277-290)
RunFlowStart ==
    /\ mail.pc = "begin"
    /\ mail' = [mail EXCEPT !.pc = "poll", !.send_time = mail.now,
                            !.sinces = <<mail.now>>]
    /\ UNCHANGED <<tasks, pending, current_task_id, wpc, idx, executing,
                   future, accounts_config, ret, flow, logs, history>>

\* one fetch of the poll cycle of line 293 or 308, with the send_time of the
\* cycle: the code found ends the polling, else the cycle goes on or is over
CycleFetch ==
    /\ mail.pc = "poll"
    /\ \E list_ok \in BOOLEAN, more \in BOOLEAN :
         LET k == fetch_verification_code(mail.provider, mail.emails,
                                          mail.send_time, list_ok)
         IN  mail' = IF k # 0
                     THEN [mail EXCEPT
                             !.pc = "done", !.from = k,
                             !.code = extract_verification_code(
                                          Content(mail.provider, mail.emails[k]))]
                     ELSE IF more THEN mail
                     ELSE [mail EXCEPT !.pc = "polled"]
    /\ UNCHANGED <<tasks, pending, current_task_id, wpc, idx, executing,
                   future, accounts_config, ret, flow, logs, history>>

\* line 302: send_time = datetime.now()
ResendReset(m) == m.now

\* lines 295-307 and 311-314: without a code, the next resend cycle begins
\* while clicks are left: send_time is set, then the resend control is clicked
ResendBegin ==
    /\ mail.pc = "polled"
    /\ IF mail.attempt < mail.resend_clicks
       THEN \E found \in BOOLEAN :
              mail' = IF found
                      THEN [mail EXCEPT !.pc = "poll",
                                        !.attempt = @ + 1,
                                        !.send_time = ResendReset(mail),
                                        !.clicked_at = mail.now,
                                        !.sinces = Append(@, ResendReset(mail))]
                      ELSE [mail EXCEPT !.pc = "done",
                                        !.send_time = ResendReset(mail)]
       ELSE mail' = [mail EXCEPT !.pc = "done"]
    /\ UNCHANGED <<tasks, pending, current_task_id, wpc, idx, executing,
                   future, accounts_config, ret, flow, logs, history>>

InitResend ==
    /\ tasks = <<>>
    /\ pending = <<>>
    /\ current_task_id = NoTask
    /\ wpc = "idle"
    /\ idx = 0
    /\ executing = {}
    /\ future = "none"
    /\ accounts_config = FALSE
    /\ ret = NoRet
    /\ flow = [pc |-> "off"]
    /\ logs = LogsOff
    /\ history = HistoryOff
    /\ \E provider \in Providers, clicks \in -1..MaxResend :
         mail = [pc |-> "begin", provider |-> provider, emails |-> <<>>,
                 now |-> TicksPerUnit, send_time |-> 0, clicked_at |-> 0,
                 sinces |-> <<>>,
                 resend_clicks |-> Max(0, clicks), attempt |-> 0,
                 code |-> None, from |-> 0]

NextResend ==
    \/ ClockTick
    \/ MailArrives
    \/ RunFlowStart
    \/ CycleFetch
    \/ ResendBegin

SpecResend == InitResend /\ [][NextResend]_vars

\* ------------------------------------------------------------------ accounts
\* The accounts table of core/storage.py (lines 120-125: account_id is the
\* primary key) under save_accounts and load_accounts.  An account is a dict
\* of which the id and one other value are followed; the list handed to
\* save_accounts may hold entries that are not dicts, dicts without an id and
\* dicts with an empty one.
MaxAccounts == 2    \* longest list handed to save_accounts

NoId == "<no id>"
AccountIds == {"a", "b", "account_2"}
Payloads == {"x", "y"}

Account(id, v) == [dict |-> TRUE, id |-> id, v |-> v]
NotADict == [dict |-> FALSE, id |-> NoId, v |-> "x"]
Entries == {NotADict} \cup {Account(id, v) : id \in AccountIds \cup {NoId, ""},
                                             v \in Payloads}
AccountLists == UNION {[1..n -> Entries] : n \in 0..MaxAccounts}

\* acc.get("id") of a dict without the key, or with an empty one
Falsy(id) == id \in {NoId, ""}

\* line 231: str(acc.get("id") or f"account_{position}")
AccountId(acc, position) ==
    IF Falsy(acc.id) THEN "account_" \o ToString(position) ELSE acc.id

\* json.dumps(payload) and, in _parse_json (63-71), json.loads: the text lists
\* the keys with their values
Dumps(payload) == <<<<"id", payload.id>>, <<"v", payload.v>>>>
Loads(text) == Account(text[1][2], text[2][2])

\* lines 244-256: INSERT ... ON CONFLICT (account_id) DO UPDATE
UpsertAccount(table, row) ==
    {r \in table : r.account_id # row.account_id} \cup {row}

\* lines 228-234 and 243-256: the rows of the dict entries, from position p on,
\* written one after the other
RECURSIVE WriteAccounts(_, _, _)
WriteAccounts(table, accounts, p) ==
    IF p > Len(accounts) THEN table
    ELSE IF ~accounts[p].dict THEN WriteAccounts(table, accounts, p + 1)
    ELSE LET account_id == AccountId(accounts[p], p)
             payload == [accounts[p] EXCEPT !.id = account_id]
             row == [account_id |-> account_id, position |-> p,
                     data |-> Dumps(payload)]
         IN  WriteAccounts(UpsertAccount(table, row), accounts, p + 1)

\* line 235
NormalizedIds(accounts) ==
    {AccountId(accounts[p], p) : p \in {q \in DOMAIN accounts : accounts[q].dict}}

\* save_accounts without its DELETE
DeleteOthers_None(table, account_ids) == table

\* lines 236-242: the DELETE of the rows whose id is not in the list
DeleteOthers(table, account_ids) ==
    IF account_ids # {} THEN {r \in table : r.account_id \in account_ids}
    ELSE {}

\* save_accounts(accounts), one transaction (lines 224-261)
save_accounts(table, accounts) ==
    WriteAccounts(DeleteOthers(table, NormalizedIds(accounts)), accounts, 1)

\* lines 74-80
EnsureAccountId(data, account_id) ==
    IF Falsy(data.id) THEN [data EXCEPT !.id = account_id] ELSE data

\* SELECT account_id, data FROM accounts ORDER BY position: the rows in one of
\* the orders the database may return them in
OrderedByPosition(rows) ==
    {q \in [1..Cardinality(rows) -> rows] :
        /\ \A i, j \in DOMAIN q : i # j => q[i] # q[j]
        /\ \A i, j \in DOMAIN q : i <= j => q[i].position <= q[j].position}

\* load_accounts(), lines 209-221
load_accounts(table) ==
    {[i \in DOMAIN q |-> EnsureAccountId(Loads(q[i].data), q[i].account_id)] :
        q \in OrderedByPosition(table)}

\* arg: the list last handed to save_accounts
NewAccounts ==
    [pc |-> "accounts", table |-> {}, arg |-> <<>>, op |-> "none",
     loaded |-> <<>>]

SaveAccounts ==
    /\ \E accounts \in AccountLists :
         history' = [history EXCEPT
                       !.table = save_accounts(history.table, accounts),
                       !.arg = accounts,
                       !.op = "save",
                       !.loaded = <<>>]
    /\ UNCHANGED <<orch, mail, flow, logs>>

LoadAccounts ==
    /\ \E loaded \in load_accounts(history.table) :
         history' = [history EXCEPT !.op = "load", !.loaded = loaded]
    /\ UNCHANGED <<orch, mail, flow, logs>>

InitAccounts ==
    /\ tasks = <<>>
    /\ pending = <<>>
    /\ current_task_id = NoTask
    /\ wpc = "idle"
    /\ idx = 0
    /\ executing = {}
    /\ future = "none"
    /\ accounts_config = FALSE
    /\ ret = NoRet
    /\ mail = MailOff
    /\ flow = [pc |-> "off"]
    /\ logs = LogsOff
    /\ history = NewAccounts

NextAccounts ==
    \/ SaveAccounts
    \/ LoadAccounts

SpecAccounts == InitAccounts /\ [][NextAccounts]_vars

\* ------------------------------------------------------------------ claims
Jobs == DOMAIN tasks
SomeActive == \E id \in Jobs : Active(tasks[id])
Started(id) == \E a \in executing' \ executing : a[1] = id

\* C1: at most one job is RUNNING and at most one attempt (state machine,
\* browser session) is executing, in every reachable state.
C1_SingleFlight ==
    /\ Cardinality({id \in Jobs : tasks[id].status = RUNNING}) <= 1
    /\ Cardinality(executing) <= 1

\* an attempt of a second job is executing while the first job is kept
C1_Witness ==
    /\ Len(tasks) = 2
    /\ tasks[1].status \in Terminal
    /\ tasks[2].status = RUNNING
    /\ executing = {<<2, 0>>}

\* C2 as stated: a submit while some job is PENDING or RUNNING fails with
\* AlreadyRunning and changes nothing; otherwise it returns a new PENDING job.
C2_AsStated ==
    [][ret'.op = "submit" =>
         IF SomeActive
         THEN /\ ret'.out = "AlreadyRunning"
              /\ UNCHANGED <<tasks, pending, wpc, current_task_id>>
         ELSE /\ ret'.out = "ok"
              /\ ret'.id \in DOMAIN tasks' \ DOMAIN tasks
              /\ tasks'[ret'.id].status = PENDING]_vars

\* C2 (amended): while ACCOUNTS_CONFIG is not set, a submit while some job is
\* PENDING or RUNNING fails with AlreadyRunning and leaves the task table, the
\* queue and the worker unchanged; with no such job it returns a new job that
\* is PENDING, in the task table and at the end of the queue.
C2_SubmitWhileBusy ==
    [][(ret'.op = "submit" /\ ~accounts_config) =>
         IF SomeActive
         THEN /\ ret'.out = "AlreadyRunning"
              /\ UNCHANGED <<tasks, pending, wpc, current_task_id>>
         ELSE /\ ret'.out = "ok"
              /\ ret'.id \in DOMAIN tasks' \ DOMAIN tasks
              /\ tasks'[ret'.id].status = PENDING
              /\ pending' = Append(pending, ret'.id)
              /\ \A id \in Jobs : tasks'[id] = tasks[id]]_vars

\* a submit was just rejected while a job is RUNNING
C2_Witness ==
    /\ ret.op = "submit"
    /\ ret.out = "AlreadyRunning"
    /\ \E id \in Jobs : tasks[id].status = RUNNING

\* C3: with ACCOUNTS_CONFIG set, submit is rejected whatever the queue state
\* and no job is created or enqueued.
C3_LockRejects ==
    [][(ret'.op = "submit" /\ accounts_config) =>
         /\ ret'.out = "Disabled"
         /\ UNCHANGED <<tasks, pending, wpc, current_task_id>>]_vars

\* a submit was just rejected by the lock although no job is active
C3_Witness ==
    /\ ret.op = "submit"
    /\ ret.out = "Disabled"
    /\ accounts_config
    /\ ~SomeActive
    /\ Len(tasks) = 1

AllSucceeded(t) == \A k \in 1..Len(t.results) : t.results[k].success

\* C4: a job that ended without a cancellation request has status SUCCESS or
\* FAILED, progress = count = len(results) = success_count + fail_count, and is
\* SUCCESS exactly when every attempt succeeded (fail_count = 0).
C4_CompletedJob ==
    \A id \in Jobs :
        LET t == tasks[id] IN
        (t.status \in Terminal /\ ~t.cancel_requested) =>
            /\ t.status \in {SUCCESS, FAILED}
            /\ t.progress = t.count
            /\ Len(t.results) = t.count
            /\ t.success_count + t.fail_count = t.count
            /\ t.success_count = Cardinality({k \in 1..Len(t.results) : t.results[k].success})
            /\ (t.status = SUCCESS) <=> (t.fail_count = 0)
            /\ (t.status = SUCCESS) <=> AllSucceeded(t)

\* count = 3, three successes
C4_Witness ==
    \E id \in Jobs :
        /\ tasks[id].count = 3
        /\ tasks[id].status = SUCCESS
        /\ tasks[id].success_count = 3
        /\ tasks[id].fail_count = 0
        /\ ~tasks[id].cancel_requested

\* C5: a cancel of a PENDING job makes it CANCELLED with progress 0, and a
\* CANCELLED job is never marked RUNNING, gets no attempt and no progress.
C5_CancelPending ==
    [][\A id \in Jobs :
         /\ (tasks[id].status = PENDING /\ tasks'[id].cancel_requested) =>
                (tasks'[id].status = CANCELLED /\ tasks'[id].progress = 0)
         /\ (tasks[id].status = CANCELLED) =>
                /\ tasks'[id].status = CANCELLED
                /\ tasks'[id].progress = tasks[id].progress
                /\ ~Started(id)
                /\ current_task_id' = id => current_task_id = id]_vars

\* a job cancelled while queued, after the worker has moved on
C5_Witness ==
    \E id \in Jobs :
        /\ tasks[id].status = CANCELLED
        /\ tasks[id].progress = 0
        /\ tasks[id].finished_at = Now
        /\ wpc = "idle"
        /\ current_task_id = NoTask

\* C6: a RUNNING job whose cancellation was requested ends CANCELLED with
\* finished_at set, and no attempt of a job starts once its flag is set.
C6_CancelRunning ==
    /\ \A id \in 1..MaxJobs :
         (id \in Jobs /\ tasks[id].status = RUNNING /\ tasks[id].cancel_requested)
            ~> (id \in Jobs /\ tasks[id].status = CANCELLED /\ tasks[id].finished_at = Now)
    /\ [][\A id \in Jobs : tasks[id].cancel_requested => ~Started(id)]_vars

\* a job cancelled after its first attempt was recorded
C6_Witness ==
    \E id \in Jobs :
        /\ tasks[id].status = CANCELLED
        /\ tasks[id].finished_at = Now
        /\ tasks[id].progress = 1
        /\ tasks[id].count = 3

Forward == {<<PENDING, RUNNING>>, <<PENDING, CANCELLED>>, <<RUNNING, SUCCESS>>,
            <<RUNNING, FAILED>>, <<RUNNING, CANCELLED>>}

\* C7: every change of a job's status is a forward move, so a terminal status
\* never changes again.
C7_StatusMonotonic ==
    [][\A id \in Jobs :
         \/ tasks'[id].status = tasks[id].status
         \/ <<tasks[id].status, tasks'[id].status>> \in Forward]_vars

\* cancel was requested for a job that had already ended SUCCESS
C7_Witness ==
    \E id \in Jobs :
        /\ tasks[id].status = SUCCESS
        /\ tasks[id].cancel_requested

\* C8: progress <= count and progress = len(results) for every job.
C8_ProgressBound ==
    \A id \in Jobs :
        /\ tasks[id].progress <= tasks[id].count
        /\ tasks[id].progress = Len(tasks[id].results)

\* a job that recorded all of its three attempts
C8_Witness ==
    \E id \in Jobs :
        /\ tasks[id].count = 3
        /\ tasks[id].progress = 3
        /\ tasks[id].fail_count >= 1

\* ------------------------------------------------------------------ claims on polling
Below(m) == m.ts.type # "none" /\ m.ts.ticks < mail.since_time
NotBelow(m) == m.ts.type # "none" /\ m.ts.ticks >= mail.since_time
HasCode(m) ==
    \/ extract_verification_code(m.text) # None
    \/ extract_verification_code(m.html) # None
CodesOf(m) == {extract_verification_code(m.text), extract_verification_code(m.html)} \ {None}

\* C9: poll never returns a code taken from a message whose timestamp is
\* below sinceTimestamp.
C9_NoStaleCode ==
    (mail.pc = "done" /\ mail.code # None) => ~Below(mail.emails[mail.from])

ReadsCode(m) ==
    IF mail.provider = "gptmail" THEN HasCode(m)
    ELSE IF m.html = <<>> THEN extract_verification_code(m.text) # None
    ELSE extract_verification_code(m.html) # None

\* entry k is one of the first 10, has an id, a readable detail, a timestamp
\* >= sinceTimestamp and a code the client reads, and no detail request of an
\* entry listed before it raises
Reachable(k) ==
    /\ k <= 10
    /\ mail.emails[k].id
    /\ mail.emails[k].detail = "ok"
    /\ NotBelow(mail.emails[k])
    /\ ReadsCode(mail.emails[k])
    /\ \A j \in 1..(k - 1) : mail.emails[j].detail # "raises"

C11_ResendBounded ==
    /\ [](/\ flow.polls <= 1 + flow.resend_clicks
          /\ flow.clicks <= flow.resend_clicks
          /\ flow.polls <= flow.clicks + 1)
    /\ [][(flow.code /\ flow.pc # "joined") =>
             (flow'.polls = flow.polls /\ flow'.clicks = flow.clicks)]_vars

\* with a budget of 2 the code arrives in the third poll cycle, after the
\* second click
C11_Witness ==
    /\ flow.pc = "submit"
    /\ flow.resend_clicks = 2
    /\ flow.polls = 3
    /\ flow.clicks = 2
    /\ flow.code

RecoverableFailure(outcome) == outcome \notin {"none", "pending", "ok", "cancelled"}
Finished(f) == f.pc \in {"finally", "wrapper", "returned", "joined"}

\* C12: an attempt that returns a failed result or raises an exception other
\* than TaskCancelledError is recorded as {success: false, error: its reason},
\* and the job goes on: unless it was the last attempt or cancellation was
\* requested, the next attempt is started (at once or after the delay).  A
\* first poll cycle without a code under a resend budget of 0 ends the state
\* machine with the reason "verification code timeout".
C12_FailureRecorded ==
    /\ [](( /\ Finished(flow) /\ flow.exc = "none"
            /\ flow.resend_clicks = 0 /\ flow.polls = 1 /\ ~flow.code)
              => flow.result = VerificationTimeout)
    /\ [][LET id == current_task_id
              t == tasks[id]
              u == tasks'[id]
          IN /\ (future = "pending" /\ RecoverableFailure(future')) =>
                    \/ future' = "exc"
                    \/ future' = flow.result
                    \/ flow.result = "none" /\ future' = MailFailed
                    \/ flow.exc # "none" /\ future' = AutomationError
             /\ (RecoverableFailure(future) /\ future' # future) =>
                    /\ u.results = Append(t.results,
                                          [success |-> FALSE,
                                           error |-> IF future = "exc" THEN "error"
                                                     ELSE future])
                    /\ u.progress = t.progress + 1
                    /\ u.fail_count = t.fail_count + 1
                    /\ (idx + 1 < t.count /\ ~t.cancel_requested) =>
                          /\ u.status = RUNNING
                          /\ wpc' = "sleep" \/ executing' = {<<id, idx + 1>>}
             /\ (wpc = "sleep" /\ wpc' # "sleep" /\ ~t.cancel_requested) =>
                    executing' = {<<id, idx + 1>>}]_vars

\* count = 2, budget 0: attempt 1 timed out in its only poll cycle, the
\* result is recorded with that reason and attempt 2 is handed to the executor
C12_Witness ==
    /\ tasks[1].count = 2
    /\ tasks[1].results = <<[success |-> FALSE, error |-> VerificationTimeout]>>
    /\ tasks[1].status = RUNNING
    /\ executing = {<<1, 1>>}
    /\ flow.pc = "joined"
    /\ flow.resend_clicks = 0
    /\ flow.polls = 1
    /\ flow.clicks = 0

\* ------------------------------------------------------------------ claims on the job, continued
\* the attempts of the running job id that have completed: those recorded and
\* the one whose outcome the worker has not picked up yet
Completed(id) ==
    tasks[id].progress +
    (IF current_task_id = id /\ wpc = "await_attempt"
        /\ future \notin {"none", "pending", "cancelled"} THEN 1 ELSE 0)

CompletedNext(id) ==
    tasks'[id].progress +
    (IF current_task_id' = id /\ wpc' = "await_attempt"
        /\ future' \notin {"none", "pending", "cancelled"} THEN 1 ELSE 0)

\* C13: once the cancellation flag of a RUNNING job is set while none of its
\* attempts is executing (k attempts have completed), no further attempt
\* starts, the number of completed attempts stays k, and the only status the
\* job can take is CANCELLED, with progress = len(results) = k.
C13_CancelBetweenAttempts ==
    [][\A id \in Jobs :
         ( /\ tasks[id].status = RUNNING
           /\ tasks[id].cancel_requested
           /\ ~\E a \in executing : a[1] = id ) =>
             /\ ~Started(id)
             /\ tasks'[id].status \in {RUNNING, CANCELLED}
             /\ tasks'[id].status = RUNNING => CompletedNext(id) = Completed(id)
             /\ tasks'[id].status = CANCELLED =>
                   /\ tasks'[id].progress = Completed(id)
                   /\ Len(tasks'[id].results) = Completed(id)
                   /\ tasks'[id].finished_at = Now]_vars

\* the flag was set during the delay between attempt 1 and attempt 2
C13_Witness ==
    \E id \in Jobs :
        /\ tasks[id].status = RUNNING
        /\ tasks[id].cancel_requested
        /\ tasks[id].count = 2
        /\ tasks[id].progress = 1
        /\ Len(tasks[id].results) = 1
        /\ wpc = "sleep"
        /\ executing = {}

\* C14: when the log callback raises TaskCancelledError during an attempt, the
\* exception is on its way out from that step on (no handler passes over
\* it), and the attempt ends by raising it to the orchestrator.
C14_SignalPropagates ==
    /\ [][(~flow.raised /\ flow'.raised) =>
             (flow'.exc = "cancelled" \/ flow'.out = "cancelled")]_vars
    /\ []((flow.pc \in {"returned", "joined"} /\ flow.raised) =>
             flow.out = "cancelled")

\* C15: when an attempt has left login_and_extract (and so before its result
\* is recorded, the next attempt begins or the job ends), the playwright
\* driver is stopped, the browser context is closed and the profile directory
\* is removed.
C15_ResourcesReleased ==
    flow.pc \in {"wrapper", "returned", "joined"} =>
        (~flow.pw_running /\ ~flow.ctx_open /\ ~flow.dir_exists)

\* C16: a job that has reached a terminal status (CANCELLED after the
\* cancellation of a running job included) eventually is no longer what
\* get_current_task reports (nothing is reported once the worker is back at
\* its queue and no job is PENDING or RUNNING), and a submit is rejected as AlreadyRunning only because of a job that is PENDING
\* or RUNNING, never because of a finished one.
C16_CurrentTaskReleased ==
    /\ \A id \in 1..MaxJobs :
         (id \in Jobs /\ tasks[id].status \in Terminal) ~> (get_current_task # id)
    /\ [][ret'.out = "AlreadyRunning" => SomeActive]_vars
    /\ []((~SomeActive /\ wpc \in {"dequeue", "idle"}) => get_current_task = NoTask)

\* a running job was cancelled after its first attempt; the worker let go of
\* it and the next submit was accepted
C16_Witness ==
    /\ Len(tasks) = 2
    /\ tasks[1].status = CANCELLED
    /\ tasks[1].count = 2
    /\ tasks[1].progress = 1
    /\ current_task_id = NoTask
    /\ ret = [op |-> "submit", out |-> "ok", id |-> 2]
    /\ tasks[2].status = PENDING

\* C17: the cancel of a queued PENDING job changes nothing of the RUNNING job
\* (status, progress, cancellation flag, results, the worker's position in
\* it), and the RUNNING job still reaches a terminal status of its own:
\* SUCCESS with every tick counted, unless its own cancellation was requested.
C17_CancelPendingFrame ==
    /\ [][\A id \in Jobs, r \in Jobs :
            (/\ tasks[id].status = PENDING
             /\ tasks'[id].status = CANCELLED
             /\ tasks[r].status = RUNNING)
            => /\ tasks'[r] = tasks[r]
               /\ current_task_id' = current_task_id
               /\ wpc' = wpc
               /\ idx' = idx]_vars
    /\ \A r \in 1..MaxJobs :
         (r \in Jobs /\ tasks[r].status = RUNNING)
             ~> (r \in Jobs /\ tasks[r].status \in Terminal)
    /\ [](\A r \in Jobs :
            (tasks[r].status \in Terminal /\ ~tasks[r].cancel_requested)
                => (tasks[r].status = SUCCESS /\ tasks[r].progress = tasks[r].count))

\* the second job was cancelled while queued behind the first, which then ran
\* all its ticks
C17_Witness ==
    /\ Len(tasks) = 2
    /\ tasks[2].status = CANCELLED
    /\ tasks[2].progress = 0
    /\ tasks[1].status = SUCCESS
    /\ tasks[1].count = 2
    /\ tasks[1].progress = 2
    /\ ~tasks[1].cancel_requested

\* the fields of a job record the claim names
Rec(id) == <<tasks[id].status, tasks[id].progress, tasks[id].results,
             logs.entries[id]>>
\* a step of the worker: of its coroutine, or of the attempt's thread it awaits
WorkerStep ==
    /\ ret'.op # "submit"
    /\ \/ <<wpc, idx, future>>' # <<wpc, idx, future>>
       \/ logs'.call # logs.call

\* C18 as stated: status, progress, results and log of a job are written by
\* steps of the worker only; a submit or a cancel writes none of them.
C18_AsStated ==
    [][~WorkerStep =>
         /\ \A id \in Jobs : Rec(id)' = Rec(id)
         /\ \A id \in DOMAIN tasks' : id \notin Jobs => logs'.entries[id] = <<>>]_vars

\* C18: a job the worker holds (RUNNING) has its status, progress, results and
\* log written by the worker only, a caller writing nothing but its
\* cancellation flag; the coroutine of the worker and the thread of the attempt
\* never write at the same time, the coroutine waiting for as long as the
\* attempt runs; the only writes of callers are the two log entries of the
\* submit that creates the record and the cancel of a PENDING job, which
\* changes neither progress, results nor log.
C18_SingleWriter ==
    /\ [][~WorkerStep =>
            \A id \in Jobs :
               /\ tasks[id].status = RUNNING =>
                    /\ Rec(id)' = Rec(id)
                    /\ [tasks'[id] EXCEPT !.cancel_requested =
                                            tasks[id].cancel_requested] = tasks[id]
               /\ Rec(id)' # Rec(id) =>
                    /\ tasks[id].status = PENDING
                    /\ tasks'[id].status = CANCELLED
                    /\ tasks'[id].progress = tasks[id].progress
                    /\ tasks'[id].results = tasks[id].results
                    /\ logs'.entries[id] = logs.entries[id]]_vars
    /\ [][\A id \in DOMAIN tasks' :
            id \notin Jobs =>
                /\ ret'.op = "submit"
                /\ tasks'[id].status = PENDING
                /\ Len(logs'.entries[id]) = 2]_vars
    /\ [](executing # {} =>
            /\ wpc = "await_attempt"
            /\ future = "pending"
            /\ executing = {<<current_task_id, idx>>})
    /\ [](logs.call # <<>> =>
            /\ executing # {}
            /\ logs.call[1].job = current_task_id)

\* the first job was cancelled by its caller before the worker took it; the
\* second is running, its caller has asked for its cancellation, and the
\* thread of its attempt is writing the log
C18_Witness ==
    /\ Len(tasks) = 2
    /\ tasks[1].status = CANCELLED
    /\ tasks[1].progress = 0
    /\ Len(logs.entries[1]) = 2
    /\ tasks[2].status = RUNNING
    /\ tasks[2].cancel_requested
    /\ logs.call # <<>>


Ordered(entries) ==
    \A i, j \in DOMAIN entries : i <= j => entries[i].time <= entries[j].time
Extends(longer, shorter) ==
    /\ Len(longer) >= Len(shorter)
    /\ SubSeq(longer, 1, Len(shorter)) = shorter
WrittenBy(id, lines) ==
    \A l \in lines : \E i \in DOMAIN logs.entries[id] : logs.entries[id][i].line = l

\* C19: every step leaves the entries a job's log already has in place, in
\* their order, and only adds entries after them; the timestamps never
\* decrease along a log, whether its entries come from start_register, from
\* the loop of the worker or from the attempt's thread.
C19_LogAppendOnly ==
    /\ [][\A id \in DOMAIN logs.entries :
            /\ id \in DOMAIN logs'.entries
            /\ Extends(logs'.entries[id], logs.entries[id])]_vars
    /\ [](\A id \in DOMAIN logs.entries : Ordered(logs.entries[id]))

\* a finished job whose log has entries of start_register, of the loop and of
\* the attempt's thread
C19_Witness ==
    /\ Len(tasks) >= 1
    /\ tasks[1].status \in {SUCCESS, FAILED}
    /\ tasks[1].count = 2
    /\ WrittenBy(1, {81, 83, 92, 102, 143, 131, 139})
    /\ Len(logs.entries[1]) >= 12

Ids(rows) == {r.id : r \in rows}
\* the rows of the table are at least as recent as every saved entry that has
\* no row
MostRecent ==
    \A k \in history.table, d \in history.saved :
        d.id \notin Ids(history.table) => k.created_at >= d.created_at
\* the last load returned the newest rows of the table, newest first
NewestFirst ==
    history.op = "load" =>
        /\ Len(history.loaded) = Min(history.limit, Cardinality(history.table))
        /\ \E q \in OrderedDesc(history.table) :
             history.loaded = SubSeq(q, 1, Len(history.loaded))

\* C20: after any sequence of saves the table holds at most the cap of
\* entries, they are the most recent of all entries saved, and a load returns
\* them newest first.
C20_MostRecentKept ==
    /\ Cardinality(history.table) <= HistoryCap
    /\ Cardinality(history.table) = Min(HistoryCap, Cardinality(history.saved))
    /\ history.table \subseteq history.saved
    /\ MostRecent
    /\ NewestFirst

\* ------------------------------------------------------------------ claims on the automation flow
\* the step of lines 262-275 that did not raise
DeepLinkStep == flow.pc = "open" /\ flow'.pc \in {"send", "extract"}

\* C21: after the deep-link navigation the flow skips to the extraction only
\* if the URL carries both the session index and the client id; with only one
\* of the two it goes on with the send-code step.
C21_ShortcutNeedsBoth ==
    [][DeepLinkStep =>
         /\ flow'.pc = "extract" => (flow'.url.csesidx /\ flow'.url.cid)
         /\ (flow'.url.csesidx # flow'.url.cid) => flow'.pc = "send"]_vars

\* login_and_extract has left its try clause, or has returned
Left(f) == f.pc \in {"finally", "wrapper"}

\* C22: one run of login_and_extract lets no exception escape but the
\* cancellation signal, and that one only after cancellation was requested;
\* every unexpected condition ends in a failed result with a reason, and a
\* result is successful only together with an extracted configuration.
C22_NothingEscapes ==
    /\ [](Left(flow) =>
            /\ flow.exc \in {"none", "cancelled"}
            /\ flow.exc = "none" <=> flow.result # "none"
            /\ flow.result = "ok" => flow.config # "none"
            /\ flow.config # "none" => flow.result = "ok")
    /\ [][/\ (flow.pc = "except" /\ flow'.pc # "except") =>
                /\ flow'.pc = "finally"
                /\ \/ flow'.result = AutomationError /\ flow'.exc = "none"
                   \/ flow'.exc = "cancelled" /\ flow'.result = "none"
          /\ (flow.exc = "none" /\ flow'.exc # "none") =>
                /\ flow'.exc = "cancelled"
                /\ tasks[current_task_id].cancel_requested
          /\ (flow.pc = "extract" /\ flow'.pc # "extract") =>
                /\ flow'.pc = "finally"
                /\ flow'.exc = "none"
                /\ flow'.result \in {"ok", ConfigNotFound, ExtractError}]_vars

\* an exception raised while the redirect was awaited came back as a failed
\* result, without a cancellation
C22_Witness ==
    /\ flow.pc = "wrapper"
    /\ flow.result = AutomationError
    /\ flow.exc = "none"
    /\ flow.polls >= 1
    /\ flow.code
    /\ ~tasks[current_task_id].cancel_requested

\* ------------------------------------------------------------------ claims on the end of a job
\* the job whose attempt the worker awaits
Awaited(id) == current_task_id = id /\ wpc = "await_attempt"

\* C23: when TaskCancelledError comes out of an attempt in progress, the job
\* goes to CANCELLED with finished_at set, its progress, results,
\* success_count and fail_count keep the values they had when the attempt
\* started (one entry per earlier attempt), and neither a later attempt nor a
\* between-attempt delay follows.
C23_InterruptedNotCounted ==
    /\ [](\A id \in Jobs : Awaited(id) =>
            /\ tasks[id].progress = idx
            /\ Len(tasks[id].results) = idx
            /\ tasks[id].success_count + tasks[id].fail_count = idx)
    /\ [][\A id \in Jobs :
            ( /\ Awaited(id) /\ future = "cancelled"
              /\ (wpc' # wpc \/ future' # future) ) =>
                /\ tasks'[id] = [tasks[id] EXCEPT !.status = CANCELLED,
                                                  !.finished_at = Now]
                /\ wpc' = "release"
                /\ executing' = {}]_vars
    /\ [](\A id \in Jobs : tasks[id].status = CANCELLED =>
            /\ ~\E a \in executing : a[1] = id
            /\ current_task_id = id => wpc \notin {"run", "await_attempt", "sleep"})

\* the second of three attempts was interrupted: the job is CANCELLED with
\* the one result of the first attempt
C23_Witness ==
    \E id \in Jobs :
        /\ tasks[id].status = CANCELLED
        /\ tasks[id].finished_at = Now
        /\ tasks[id].count = 3
        /\ tasks[id].progress = 1
        /\ Len(tasks[id].results) = 1
        /\ current_task_id = id
        /\ wpc = "release"
        /\ idx = 1
        /\ ret.op = "none"

\* the loop of job id ran to its end in this step: the job leaves RUNNING with
\* every attempt recorded
LoopExit(id) ==
    /\ tasks[id].status = RUNNING
    /\ tasks'[id].status # RUNNING
    /\ tasks'[id].progress = tasks'[id].count

\* C24: when the loop ends after count attempts, the job is CANCELLED if the
\* cancellation flag is set (also when it was set during the last attempt),
\* else SUCCESS if no attempt failed and FAILED if one did.
C24_FinalStatus ==
    [][\A id \in Jobs : LoopExit(id) =>
         /\ tasks'[id].cancel_requested = tasks[id].cancel_requested
         /\ tasks'[id].finished_at = Now
         /\ tasks'[id].status =
              IF tasks[id].cancel_requested THEN CANCELLED
              ELSE IF tasks'[id].fail_count = 0 THEN SUCCESS
              ELSE FAILED]_vars

\* the flag was set during the last of two attempts, both succeeded, and the
\* job is CANCELLED with progress = count
C24_Witness ==
    \E id \in Jobs :
        /\ tasks[id].status = CANCELLED
        /\ tasks[id].count = 2
        /\ tasks[id].progress = 2
        /\ tasks[id].success_count = 2
        /\ tasks[id].cancel_requested

\* attempt k of job id is handed to the executor in this step
Starts(id, k) == <<id, k>> \in executing' \ executing

\* the delay after an attempt of job id begins in this step
DelayBegins(id) == current_task_id = id /\ wpc # "sleep" /\ wpc' = "sleep"

\* C25: attempt k+1 starts only after attempt k was recorded, after the delay
\* if there is one, and after a check of the cancellation flag made then; the
\* delay, applied when the configured max is > 0, is chosen in
\* [max(0, min), max(min, max)], and none is applied after the last attempt.
C25_AttemptOrder ==
    /\ [](\A id \in Jobs, delay_min \in DelayInputs, delay_max \in DelayInputs :
            (current_task_id = id /\ wpc = "await_attempt") =>
               LET t == tasks[id]
                   chosen == SleepSeconds(t, idx, delay_min, delay_max)
               IN  /\ (idx < t.count - 1 /\ delay_max > 0) =>
                          chosen = Max(0, delay_min)..Max(delay_min, delay_max)
                   /\ (idx >= t.count - 1 \/ delay_max <= 0) => chosen = {0})
    /\ [][\A id \in Jobs :
            /\ \A k \in 0..MaxCount : Starts(id, k) =>
                  /\ executing = {}
                  /\ ~tasks[id].cancel_requested
                  /\ tasks'[id].progress = k
                  /\ Len(tasks'[id].results) = k
                  /\ k < tasks[id].count
                  /\ k > 0 =>
                       /\ idx = k - 1
                       /\ \/ wpc = "sleep"
                          \/ wpc = "await_attempt" /\ future \notin {"none", "pending"}
            /\ DelayBegins(id) =>
                  /\ wpc = "await_attempt"
                  /\ tasks'[id].progress = tasks[id].progress + 1
                  /\ tasks'[id].progress = idx + 1
                  /\ tasks'[id].progress < tasks[id].count
                  /\ executing' = {}
            /\ (current_task_id = id /\ wpc = "sleep" /\ wpc' # "sleep") =>
                  IF tasks[id].cancel_requested
                  THEN tasks'[id].status = CANCELLED /\ executing' = {}
                  ELSE Starts(id, idx + 1)]_vars

\* after the second of three attempts the delay is running
C25_Witness ==
    \E id \in Jobs :
        /\ current_task_id = id
        /\ wpc = "sleep"
        /\ idx = 1
        /\ tasks[id].count = 3
        /\ tasks[id].progress = 2
        /\ ~tasks[id].cancel_requested

\* ------------------------------------------------------------------ claims on cancel and cleanup
\* cancel_task for the running job happens in this step: the flag is set, or
\* set again with the hooks called once more
CancelStep ==
    /\ tasks'[current_task_id].cancel_requested
    /\ ~tasks[current_task_id].cancel_requested \/ (flow.h = 0 /\ flow'.h = 1)

\* the attempt is inside login_and_extract: its state machine is active
MachineActive(f) ==
    f.pc \notin {"idle", "mailbox", "login", "wrapper", "returned", "joined"}

\* the attempt's thread works on an open browser in this step, and goes on
Driven ==
    /\ flow.ctx_open
    /\ flow.pc \in {"open", "send", "input", "resend", "submit", "redirect",
                    "params", "extract"}
    /\ flow'.pc # flow.pc
    /\ flow'.pc \notin {"finally", "except"} \/ flow'.result = "ok"

\* C26: a cancel of the running job while a state machine is active starts
\* that machine's hook; once the hook has returned and the attempt is over no
\* browser is open, and after a cancel whose hook has returned (or that came
\* before the hook was registered) no step of the attempt drives a browser.
C26_CancelClosesBrowser ==
    /\ [][(CancelStep /\ MachineActive(flow)) => flow'.h = 1]_vars
    /\ []((tasks[current_task_id].cancel_requested /\ flow.h = 0
           /\ flow.pc \in {"wrapper", "returned", "joined"}) => ~flow.ctx_open)
    /\ [][(tasks[current_task_id].cancel_requested /\ flow.h = 0) => ~Driven]_vars

\* a call of _cleanup returns in this step: the one made by stop(), or the one
\* of the finally clause of login_and_extract
CleanupReturns ==
    \/ flow.h = CleanupLast /\ flow'.h = 0
    \/ flow.pc = "finally" /\ flow'.pc = "wrapper"

Released(f) ==
    /\ ~f.context /\ ~f.ctx_open
    /\ ~f.playwright /\ ~f.pw_running
    /\ ~f.user_data_dir /\ ~f.dir_exists

\* C27: stop() and _cleanup may be called any number of times, before the
\* context exists, after the flow's own cleanup or together with it, and
\* every call ends with the context, the driver and the profile directory
\* released, and raises nothing.
C27_CleanupIdempotent ==
    [][CleanupReturns => (Released(flow') /\ flow'.exc = flow.exc)]_vars

\* ------------------------------------------------------------------ claims on fetch and poll
\* C28: poll performs at most max(1, timeout div interval) fetches, returns at
\* the first fetch that yields a code, sleeps interval seconds between two
\* fetches and never after the last one, and always terminates, returning
\* none when every fetch yielded nothing.
C28_PollTerminates ==
    /\ [](mail.pc # "idle" =>
            /\ mail.max_retries = Max(1, mail.timeout \div mail.interval)
            /\ mail.i >= 1
            /\ mail.i <= mail.max_retries
            /\ mail.slept = (mail.i - 1) * mail.interval
            /\ (mail.pc = "done" /\ mail.code = None) => mail.i = mail.max_retries
            /\ (mail.pc = "done" /\ mail.code # None) => mail.from # 0)
    /\ [][/\ (mail.pc = "fetch" /\ mail'.pc # "fetch") =>
                /\ mail'.i = mail.i
                /\ mail'.slept = mail.slept
                /\ \/ mail'.pc = "done" /\ mail'.code # None
                   \/ mail'.pc = "done" /\ mail'.code = None
                        /\ mail.i = mail.max_retries
                   \/ mail'.pc = "sleep" /\ mail'.code = None
                        /\ mail.i < mail.max_retries
          /\ (mail.pc = "sleep" /\ mail'.pc # "sleep") =>
                /\ mail'.pc = "fetch"
                /\ mail'.i = mail.i + 1
                /\ mail'.slept = mail.slept + mail.interval
          /\ mail.pc = "done" => mail' = mail]_vars
    /\ <>(mail.pc = "done")

\* two fetches with one sleep of 2 seconds between them, and no code
C28_Witness ==
    /\ mail.pc = "done"
    /\ mail.code = None
    /\ mail.timeout = 4
    /\ mail.max_retries = 2
    /\ mail.i = 2
    /\ mail.interval = 2
    /\ mail.slept = 2
    /\ mail.listed

\* entry k passes the filters of the scan (it has an id and is not older than
\* the threshold), its detail can be read and the content read holds a code
YieldsCode(k) ==
    /\ mail.emails[k].id
    /\ ~Skipped(mail.provider, mail.emails[k], mail.since_time)
    /\ mail.emails[k].detail = "ok"
    /\ ReadsCode(mail.emails[k])

\* the first such entry among the first 10 of the list, 0 when there is none
FirstYield ==
    LET ks == {k \in DOMAIN mail.emails : k <= 10 /\ YieldsCode(k)}
    IN  IF ks = {} THEN 0 ELSE CHOOSE k \in ks : \A j \in ks : k <= j

\* C29: a fetch inspects the first 10 entries of the list, in list order, and
\* returns the code of the first eligible one that holds a code; an entry
\* beyond the 10th is never read, and an entry whose detail cannot be read is
\* skipped without ending the scan.
C29_ScanFirstTen ==
    (mail.pc = "done" /\ mail.listed) =>
        /\ mail.from = FirstYield
        /\ mail.from <= 10
        /\ mail.from # 0 =>
              mail.code = extract_verification_code(
                              Content(mail.provider, mail.emails[mail.from]))
        /\ mail.from = 0 => mail.code = None

\* ------------------------------------------------------------------ claims on the poll cycles
Nondecreasing(q) == \A j \in 1..(Len(q) - 1) : q[j] <= q[j + 1]

\* C30: every resend cycle sets sinceTimestamp to the current time before the
\* resend control is clicked and polls with that value, so the values used by
\* the poll cycles of an attempt never decrease, and a code that arrived
\* before a resend cycle began is not accepted in that cycle.
C30_ResendWindow ==
    /\ [][(mail.pc = "polled" /\ mail'.pc = "poll") =>
             /\ mail'.send_time = mail.now
             /\ mail'.clicked_at >= mail'.send_time
             /\ mail'.sinces = Append(mail.sinces, mail.now)]_vars
    /\ [](mail.pc \in {"poll", "polled", "done"} =>
             /\ Nondecreasing(mail.sinces)
             /\ Len(mail.sinces) = mail.attempt + 1
             /\ mail.sinces[Len(mail.sinces)] = mail.send_time \/ mail.pc = "done")
    /\ []((mail.pc = "done" /\ mail.code # None /\ mail.attempt >= 1) =>
             mail.emails[mail.from].arrived >= mail.send_time)

\* ------------------------------------------------------------------ claims on the verification steps
\* C31: an attempt that is not interrupted fails with a verification timeout
\* exactly when its first poll cycle and every resend poll cycle of its budget
\* came back without a code: with a budget of 0 the reason is "verification
\* code timeout", after one empty poll cycle and no click; with a budget R > 0
\* the reason is "verification code timeout after resend", after R clicks and
\* 1 + R empty poll cycles.  No poll cycle is started once a code was returned.
C31_TimeoutExactly ==
    /\ []((Finished(flow) /\ flow.exc = "none") =>
            /\ flow.result = VerificationTimeout <=>
                  /\ flow.resend_clicks = 0
                  /\ flow.polls = 1
                  /\ flow.clicks = 0
                  /\ ~flow.code
            /\ flow.result = VerificationTimeoutAfterResend <=>
                  /\ flow.resend_clicks > 0
                  /\ flow.polls = 1 + flow.resend_clicks
                  /\ flow.clicks = flow.resend_clicks
                  /\ ~flow.code)
    /\ [][flow'.polls = flow.polls + 1 => ~flow.code]_vars

\* budget 2: the first poll cycle and both resend poll cycles were empty, and
\* the attempt failed after the second of them
C31_Witness ==
    /\ flow.pc = "wrapper"
    /\ flow.resend_clicks = 2
    /\ flow.polls = 3
    /\ flow.clicks = 2
    /\ ~flow.code
    /\ flow.exc = "none"
    /\ flow.result = VerificationTimeoutAfterResend

\* C32: in a cycle of the resend loop whose resend control is not found or
\* cannot be clicked, the attempt, unless interrupted, fails at once with the
\* reason "resend code button not found": the step from the loop either counts
\* a click and starts the cycle's poll, or ends the flow with that reason and
\* no click; an attempt that failed so performs no further click or poll
\* cycle, although budget remained.
C32_ResendButtonMissing ==
    /\ [][(flow.pc = "resend" /\ flow'.pc # "resend") =>
             \/ /\ flow'.pc = "repolling"
                /\ flow'.clicks = flow.clicks + 1
                /\ flow'.polls = flow.polls
             \/ /\ flow'.pc = "finally"
                /\ flow'.exc = "none"
                /\ flow'.result = ResendButtonNotFound
                /\ flow'.clicks = flow.clicks
                /\ flow'.polls = flow.polls
             \/ /\ flow'.pc = "finally"
                /\ flow'.exc = "cancelled"
                /\ Raises]_vars
    /\ []((Finished(flow) /\ flow.result = ResendButtonNotFound) =>
             /\ flow.clicks < flow.resend_clicks
             /\ flow.polls = flow.clicks + 1
             /\ ~flow.code)
    /\ [][(flow.result = ResendButtonNotFound /\ flow.pc # "joined") =>
             (flow'.polls = flow.polls /\ flow'.clicks = flow.clicks)]_vars

\* budget 2: the first resend cycle clicked and polled, the second one found
\* no control, and the attempt failed with one unit of its budget unused
C32_Witness ==
    /\ flow.pc = "wrapper"
    /\ flow.result = ResendButtonNotFound
    /\ flow.resend_clicks = 2
    /\ flow.clicks = 1
    /\ flow.polls = 2

\* C33: in the wait that follows the submission of the code, the code is
\* submitted again at most max_submit_attempts - 1 = 2 times and the URL is
\* read in at most max_submit_attempts * wait_rounds = 15 rounds; the code is
\* submitted again only when the last URL read was still the verification
\* page; once a round has read a URL that left the verification page, no round
\* and no submission follows; and the flow ends with "verification code
\* submission failed" exactly when, not interrupted, it comes out of the last
\* round with the URL still on the verification page.
C33_PostSubmitWait ==
    /\ [](/\ flow.submits <= max_submit_attempts - 1
          /\ flow.rounds <= max_submit_attempts * wait_rounds
          /\ (flow.pc = "waited" /\ flow.verify_page) =>
                (/\ flow.rounds = max_submit_attempts * wait_rounds
                 /\ flow.submits = max_submit_attempts - 1))
    /\ [][/\ flow'.submits = flow.submits + 1 =>
                (flow.verify_page /\ flow.rounds > 0)
          /\ ~flow.verify_page =>
                (flow'.rounds <= flow.rounds /\ flow'.submits <= flow.submits)
          /\ (flow'.result = VerificationSubmitFailed
                 /\ flow.result # VerificationSubmitFailed) =>
                (/\ flow.pc = "waited"
                 /\ flow.verify_page)
          /\ (flow.pc = "waited" /\ flow'.pc # "waited" /\ flow.verify_page) =>
                \/ flow'.result = VerificationSubmitFailed /\ flow'.exc = "none"
                \/ Raises /\ flow'.exc = "cancelled"
          /\ (flow.pc = "waited" /\ flow'.pc # "waited" /\ ~flow.verify_page) =>
                flow'.result # VerificationSubmitFailed]_vars

\* the code was submitted three times in all and the fifteenth round still
\* read the verification page
C33_Witness ==
    /\ flow.pc = "waited"
    /\ flow.verify_page
    /\ flow.rounds = 15
    /\ flow.submits = 2
    /\ flow.submit_attempt = 2

\* C34: the negotiation of the URL parameters reloads the page at most once
\* per attempt, only after a first wait for the parameters ended without
\* them; the reload is followed by exactly one more wait; the flow fails with
\* "URL parameters not found" only when both waits ended without them; and
\* the flow goes from the negotiation to the extraction only with both the
\* session-index parameter and the client-id segment in the URL.
C34_ParamsNegotiation ==
    /\ [](flow.reloads <= 1 /\ flow.reloads <= flow.param_polls)
    /\ [][/\ flow'.reloads = flow.reloads + 1 =>
                (flow.param_polls = 1 /\ flow.reloads = 0)
          /\ (flow.pc = "paramwait2" /\ flow'.pc # "paramwait2") =>
                flow'.pc \in {"extract", "finally"}
          /\ (flow'.result = ParamsMissing /\ flow.result # ParamsMissing) =>
                (/\ flow.pc = "paramwait2"
                 /\ flow.param_polls = 1
                 /\ flow.reloads = 1)
          /\ (flow.pc \in {"params", "paramwait", "paramwait2"}
                 /\ flow'.pc = "extract") =>
                (flow'.url.csesidx /\ flow'.url.cid)]_vars

\* ------------------------------------------------------------------ claims on termination
\* C35: every attempt terminates, whatever the browser and the mailbox
\* answer: an attempt that has started returns to the worker, with a config,
\* with a failure or interrupted by the cancellation; and the job, whatever
\* its count, reaches a terminal status.
C35_AttemptTerminates ==
    /\ (flow.pc = "mailbox") ~> (flow.pc = "returned")
    /\ <>(tasks[1].status \in Terminal)

\* the second attempt of a job of two has returned after a resend cycle, the
\* fifteen rounds of the wait having been enough this time
C35_Witness ==
    /\ flow.pc = "returned"
    /\ idx = 1
    /\ flow.polls = 2
    /\ flow.out = "ok"

\* ------------------------------------------------------------------ claims on the accounts
Dicts(L) == {p \in DOMAIN L : L[p].dict}
IdAt(L, p) == IF L[p].id \in {NoId, ""} THEN "account_" \o ToString(p) ELSE L[p].id
IdsOf(L) == {IdAt(L, p) : p \in Dicts(L)}
InOrderOf(L, loaded) ==
    \E pos \in [DOMAIN loaded -> Dicts(L)] :
       /\ \A i, j \in DOMAIN loaded : i < j => pos[i] < pos[j]
       /\ \A i \in DOMAIN loaded : loaded[i] = Account(IdAt(L, pos[i]), L[pos[i]].v)
DistinctIds(L) ==
    /\ Dicts(L) = DOMAIN L
    /\ \A p \in DOMAIN L : L[p].id \notin {NoId, ""}
    /\ \A p, q \in DOMAIN L : p # q => L[p].id # L[q].id

\* C36: save_accounts(L) replaces the stored list: the stored ids are exactly
\* the ids of the dict entries of L, an entry without an id counting as
\* "account_<position>"; no earlier row whose id is not among them remains;
\* load_accounts returns stored entries of L in the order of L; and for a list
\* of dicts with distinct non-empty ids it returns L.
C36_SaveReplaces ==
    /\ []({r.account_id : r \in history.table} = IdsOf(history.arg))
    /\ [][history'.op = "save" =>
             \A r \in history.table :
                r.account_id \notin IdsOf(history'.arg) =>
                   \A s \in history'.table : s.account_id # r.account_id]_vars
    /\ [](history.op = "load" =>
             /\ InOrderOf(history.arg, history.loaded)
             /\ {history.loaded[i].id : i \in DOMAIN history.loaded}
                   = IdsOf(history.arg)
             /\ DistinctIds(history.arg) => history.loaded = history.arg)

\* the list <<b, a>> was saved and loaded back in that order
C36_Witness ==
    /\ history.op = "load"
    /\ history.arg = <<Account("b", "x"), Account("a", "y")>>
    /\ history.loaded = history.arg
    /\ {r.account_id : r \in history.table} = {"a", "b"}

\* C37: the stored list of accounts is changed by the attempts that succeed
\* and by no other: an attempt that returns a config has handed it to the
\* store, and an attempt that ends with a failure or interrupted by the
\* cancellation has left the stored list as it was.
C37_OnlySuccessPersists ==
    (flow.pc \in {"returned", "joined"}) => (flow.persisted <=> flow.out = "ok")

\* ------------------------------------------------------------------ claims on the job record
\* C38 as stated: every accepted job has count >= 1; a requested count that is
\* missing, 0 or negative is replaced by the configured default, and the
\* result is at least 1; the worker hands the first attempt of every job it
\* runs to the executor, unless the job was cancelled before.
C38_DefaultForNegative ==
    /\ [](\A id \in DOMAIN tasks : tasks[id].count >= 1)
    /\ [][Len(tasks') > Len(tasks) =>
             tasks'[Len(tasks')].count =
                IF ~mail.count.given \/ mail.count.value <= 0
                THEN Max(1, mail.default)
                ELSE mail.count.value]_vars
    /\ [][(wpc = "run" /\ wpc' # "run"
              /\ ~tasks[current_task_id].cancel_requested) =>
             executing' = {<<current_task_id, 0>>}]_vars

\* C38, amended: every accepted job has count >= 1; a requested count that is
\* missing or 0 is replaced by the configured default, a negative one is not,
\* and the count of the job is the larger of 1 and that value; the worker
\* hands the first attempt of every job it runs to the executor, unless the
\* job was cancelled before.
C38_CountAtLeastOne ==
    /\ [](\A id \in DOMAIN tasks : tasks[id].count >= 1)
    /\ [][Len(tasks') > Len(tasks) =>
             tasks'[Len(tasks')].count =
                IF ~mail.count.given \/ mail.count.value = 0
                THEN Max(1, mail.default)
                ELSE Max(1, mail.count.value)]_vars
    /\ [][(wpc = "run" /\ wpc' # "run"
              /\ ~tasks[current_task_id].cancel_requested) =>
             executing' = {<<current_task_id, 0>>}]_vars

\* a count of -1 under a default of 2: the job has one attempt, which is
\* running
C38_Witness ==
    /\ mail.count = [given |-> TRUE, value |-> -1]
    /\ mail.default = 2
    /\ Len(tasks) = 1
    /\ tasks[1].count = 1
    /\ tasks[1].status = RUNNING
    /\ executing = {<<1, 0>>}

====
